---- MODULE Spec2Model ----
(***************************************************************************)
(* A model of the PoZeDSP engine (dsp_engine.py), its shared filter        *)
(* description (state_manager.py) and the handlers that call the engine.   *)
(*                                                                         *)
(* Numbers.  The engine computes in IEEE doubles.  The model computes in   *)
(* exact arithmetic: a real number is a rational, and a complex number is  *)
(* an element of the cyclotomic field generated by w = e^{2*pi*j/Turn},    *)
(* which holds every point of every FFT grid the program can select        *)
(* (Turn is the largest grid) and j = w^(Turn/4).  All inputs of the model *)
(* are dyadic rationals of small height, on which the double operations    *)
(* of the code are exact; on the unit-circle grid the model is exact where *)
(* the doubles carry a rounding error of about 1e-16.                      *)
(*                                                                         *)
(* One rounding error is kept, because the clamp of compute_H multiplies   *)
(* it by 1e10: the double nearest to pi/2 is short of pi/2 by              *)
(* d = 6.123233995736766e-17, so that np.exp(1j * m * pi/2) is             *)
(* j^m * (1 - m*d*j) and not j^m.  Numbers carry the multiples of d to     *)
(* first order (d*d is far below the last bit of any value it is added     *)
(* to).  Only the points 1, -1, j, -j of the unit circle are dyadic, so    *)
(* no other grid point can coincide with a root the model is given.        *)
(***************************************************************************)
EXTENDS Integers, Sequences, FiniteSets, TLC

VARIABLES
    zeros,          \* sm.zeros: sequence of complex roots
    poles,          \* sm.poles
    system_gain,    \* sm.system_gain
    system_delay,   \* sm.system_delay
    N_impulse,      \* sm.N_impulse
    ui,             \* the interaction state: sm.mode, sm.dragging, sm.selected, ...
    plots,          \* what update_all last drew
    call            \* the call in progress or just returned

vars == <<zeros, poles, system_gain, system_delay, N_impulse, ui, plots, call>>

-----------------------------------------------------------------------------
(* Integers and rationals <<n, d>>, d > 0, in lowest terms.                *)

Abs(n) == IF n < 0 THEN -n ELSE n

RECURSIVE GCD(_, _)
GCD(a, b) == IF b = 0 THEN a ELSE GCD(b, a % b)

RNorm(n, d) ==
    LET g == GCD(Abs(n), Abs(d))
        s == IF d < 0 THEN -1 ELSE 1
    IN  <<(s * n) \div g, (s * d) \div g>>

RZero == <<0, 1>>
ROne == <<1, 1>>
RInt(n) == <<n, 1>>
RAdd(p, q) == IF p[2] = 1 /\ q[2] = 1 THEN <<p[1] + q[1], 1>>
              ELSE RNorm(p[1] * q[2] + q[1] * p[2], p[2] * q[2])
RNeg(p) == <<-p[1], p[2]>>
RSub(p, q) == RAdd(p, RNeg(q))
RMul(p, q) == IF p[2] = 1 /\ q[2] = 1 THEN <<p[1] * q[1], 1>>
              ELSE RNorm(p[1] * q[1], p[2] * q[2])
RInv(p) == RNorm(p[2], p[1])
RDiv(p, q) == RMul(p, RInv(q))
RLess(p, q) == p[1] * q[2] < q[1] * p[2]

\* n \div 10^m, without forming 10^m
RECURSIVE DivPow10(_, _)
DivPow10(n, m) == IF m = 0 \/ n = 0 THEN n ELSE DivPow10(n \div 10, m - 1)

\* p < 10^k for a rational p >= 0 and any integer k
RBelowPow10(p, k) ==
    IF p[1] = 0 THEN TRUE
    ELSE IF k >= 0 THEN DivPow10(p[1] \div p[2], k) < 1
    ELSE DivPow10((p[2] - 1) \div p[1], -k) >= 1

-----------------------------------------------------------------------------
(* The FFT sizes the program offers, and the unit circle.                  *)

Options == <<64, 128, 256, 512, 1024, 2048>>

Turn == Options[Len(Options)]       \* grid units in one turn: w = e^{2 pi j / Turn}
Half == Turn \div 2                  \* w^Half = -1
Quarter == Turn \div 4               \* w^Quarter = j

(* A coefficient map: a function from exponents to non-zero rationals.     *)
(* An exponent e in 0..Half-1 stands for w^e and an exponent Half + e for  *)
(* d * w^e, d the rounding error of pi/2 in doubles; the map stands for    *)
(* the sum of c[e] times these.  The form is canonical: the powers         *)
(* w^0 .. w^(Half-1) are a basis over the rationals.                       *)

CyZero == [e \in {} |-> ROne]
CyCoef(c, e) == IF e \in DOMAIN c THEN c[e] ELSE RZero
CyClean(f) == [e \in {x \in DOMAIN f : f[x] # RZero} |-> f[e]]
CyReal(q) == IF q = RZero THEN CyZero ELSE [e \in {0} |-> q]
CyAdd(a, b) ==
    IF DOMAIN a = {} THEN b
    ELSE IF DOMAIN b = {} THEN a
    ELSE CyClean([e \in DOMAIN a \cup DOMAIN b |-> RAdd(CyCoef(a, e), CyCoef(b, e))])
CyScale(a, q) == IF q = RZero THEN CyZero ELSE [e \in DOMAIN a |-> RMul(a[e], q)]
\* a * w^k for any integer k
CyShift(a, k) ==
    LET kk == k % Turn
        src(e2) == (e2 \div Half) * Half + (((e2 % Half) - kk) % Half)
        dst(e)  == (e \div Half) * Half + (((e % Half) + kk) % Half)
    IN  IF kk = 0 THEN a
        ELSE [e2 \in {dst(e) : e \in DOMAIN a} |->
                IF ((src(e2) % Half) + kk) % Turn >= Half
                THEN RNeg(a[src(e2)]) ELSE a[src(e2)]]
\* the part of a without d, the factor of d in a, and d * a (d * d = 0)
CyLow(a) == [e \in {x \in DOMAIN a : x < Half} |-> a[e]]
CyHigh(a) == [e \in {x - Half : x \in {y \in DOMAIN a : y >= Half}} |-> a[e + Half]]
CyRaise(a) == [e \in {x + Half : x \in {y \in DOMAIN a : y < Half}} |-> a[e - Half]]
RECURSIVE CyMulFrom(_, _, _)
CyMulFrom(a, b, todo) ==
    IF todo = {} THEN CyZero
    ELSE LET e == CHOOSE x \in todo : TRUE
             t == IF e < Half THEN CyShift(a, e) ELSE CyShift(CyRaise(a), e - Half)
         IN  CyAdd(CyScale(t, b[e]), CyMulFrom(a, b, todo \ {e}))
CyMul(a, b) == CyMulFrom(a, b, DOMAIN b)
CyConj(a) ==
    LET src(e2) == IF e2 % Half = 0 THEN e2 ELSE (e2 \div Half) * Half + Half - (e2 % Half)
    IN  [e2 \in {src(e) : e \in DOMAIN a} |->
            IF e2 % Half = 0 THEN a[e2] ELSE RNeg(a[src(e2)])]
CyIsGauss(a) == DOMAIN a \subseteq {0, Quarter}
\* |a|^2 of a Gaussian rational a = re + im j
CyNorm2(a) == RAdd(RMul(CyCoef(a, 0), CyCoef(a, 0)),
                   RMul(CyCoef(a, Quarter), CyCoef(a, Quarter)))
\* a / b for a single term b = q * w^e or a Gaussian rational b without d
CyOver(a, b) ==
    CASE Cardinality(DOMAIN b) = 1 ->
            LET e == CHOOSE k \in DOMAIN b : TRUE
            IN  CyScale(CyShift(a, -e), RInv(b[e]))
      [] CyIsGauss(b) -> CyScale(CyMul(a, CyConj(b)), RInv(CyNorm2(b)))

-----------------------------------------------------------------------------
(* A complex double: nf is set for inf and nan; otherwise the value is     *)
(* (sum of c[e] w^e) * 10^e10.  The power of ten is kept apart because the *)
(* clamp value 1e-10 of compute_H does not fit the integers of the checker *)
(* as a fraction; zero has e10 = 0.                                        *)

CMk(e10, c) == [nf |-> FALSE, e10 |-> IF c = CyZero THEN 0 ELSE e10, c |-> c]
CNonFinite == [nf |-> TRUE, e10 |-> 0, c |-> CyZero]
CZero == CMk(0, CyZero)
CReal(q) == CMk(0, CyReal(q))
COne == CReal(ROne)
\* re + im j from two rationals
CGauss(re, im) == CMk(0, CyAdd(CyReal(re), CyShift(CyReal(im), Quarter)))
CPow10(k) == CMk(k, CyReal(ROne))
IsZero(x) == ~x.nf /\ x.c = CyZero

CNeg(x) == IF x.nf THEN x ELSE CMk(x.e10, CyScale(x.c, RInt(-1)))
CAdd(x, y) ==
    CASE x.nf \/ y.nf -> CNonFinite
      [] IsZero(x) -> y
      [] IsZero(y) -> x
      [] x.e10 = y.e10 -> CMk(x.e10, CyAdd(x.c, y.c))
CSub(x, y) == CAdd(x, CNeg(y))
CMul(x, y) ==
    IF x.nf \/ y.nf THEN CNonFinite
    ELSE CMk(x.e10 + y.e10, CyMul(x.c, y.c))
CConj(x) == IF x.nf THEN x ELSE CMk(x.e10, CyConj(x.c))
\* x / y as numpy divides complex doubles: a zero divisor gives inf or nan.
\* The divisors of the model are a single term q * w^e or a Gaussian rational
\* a, alone or with a multiple of d: x / (a + d*b) = x/a - d * (x/a) * (b/a).
CDiv(x, y) ==
    CASE x.nf \/ y.nf -> CNonFinite
      [] IsZero(y) -> CNonFinite
      [] CyLow(y.c) # CyZero ->
            LET lo   == CyLow(y.c)
                hi   == CyHigh(y.c)
                main == CyOver(x.c, lo)
            IN  IF hi = CyZero THEN CMk(x.e10 - y.e10, main)
                ELSE CMk(x.e10 - y.e10,
                         CyAdd(main, CyScale(CyRaise(CyMul(main, CyOver(hi, lo))),
                                             RInt(-1))))
CRe(x) == IF x.nf THEN x
          ELSE CMk(x.e10, CyScale(CyAdd(x.c, CyConj(x.c)), <<1, 2>>))
CIm(x) == IF x.nf THEN x
          ELSE CMk(x.e10, CyScale(CyShift(CyAdd(x.c, CyScale(CyConj(x.c), RInt(-1))),
                                          -Quarter), <<1, 2>>))
IsReal(x) == ~x.nf /\ CyConj(x.c) = x.c
\* abs(x) < 10^k, for x a Gaussian rational times a power of ten, or d
\* times one (1e-17 < d < 1e-16); a comparison with nan is false
AbsBelowPow10(x, k) ==
    CASE x.nf -> FALSE
      [] CyLow(x.c) # CyZero /\ CyIsGauss(CyLow(x.c)) ->
            RBelowPow10(CyNorm2(CyLow(x.c)), 2 * (k - x.e10))
      [] CyLow(x.c) = CyZero /\ CyIsGauss(CyHigh(x.c))
           /\ RBelowPow10(CyNorm2(CyHigh(x.c)), 2 * (k - x.e10 + 16)) -> TRUE
      [] CyLow(x.c) = CyZero /\ CyIsGauss(CyHigh(x.c))
           /\ ~RBelowPow10(CyNorm2(CyHigh(x.c)), 2 * (k - x.e10 + 17)) -> FALSE

RECURSIVE CPowNat(_, _)
CPowNat(x, n) == IF n = 0 THEN COne ELSE CMul(x, CPowNat(x, n - 1))
\* x ** n for an integer n (numpy: a negative power is the reciprocal)
CPow(x, n) == IF n >= 0 THEN CPowNat(x, n) ELSE CDiv(COne, CPowNat(x, -n))

-----------------------------------------------------------------------------
(* numpy arrays.  An array of samples is a record [dtype, v]: v is the     *)
(* sequence of elements (element i of the code is v[i+1]) and dtype is     *)
(* "float" or "complex".  Coefficient arrays b and a are plain sequences:  *)
(* the code only reads them.                                               *)

Arr(dtype, v) == [dtype |-> dtype, v |-> v]

\* The value an element of an array of this dtype holds after `y[n] = val`:
\* a float array keeps the real part of a complex value (numpy casts, with a
\* ComplexWarning).
Store(dtype, val) == IF dtype = "float" THEN CRe(val) ELSE val

\* An array held in memory: the same sequence, its elements computed once.
Held(v) == v \o <<>>

\* np.zeros_like(x)
zeros_like(x) == Arr(x.dtype, [i \in 1..Len(x.v) |-> CZero])

\* numpy.roll(x, shift): element i moves to (i + shift) mod n
roll(v, shift) ==
    [i \in 1..Len(v) |-> v[((i - 1 - shift) % Len(v)) + 1]]

\* a shift that moves nothing
fftshift_Unshifted(v) == v

\* numpy.fft.fftshift(x) is roll(x, n // 2)
fftshift(v) == roll(v, Len(v) \div 2)

\* np.arange(lo, hi)
arange(lo, hi) == [i \in 1..(hi - lo) |-> lo + i - 1]

-----------------------------------------------------------------------------
(* dsp_engine.py: signal generators, on an integer index array             *)

unit_step(t) == Arr("float", [i \in 1..Len(t) |-> IF t[i] >= 0 THEN COne ELSE CZero])

\* np.where(np.abs(t) < 1e-9, 1.0, 0.0) on integers
impulse(t) == Arr("float", [i \in 1..Len(t) |-> IF t[i] = 0 THEN COne ELSE CZero])

\* t * unit_step(t)
ramp(t) ==
    Arr("float", [i \in 1..Len(t) |-> CMul(CReal(RInt(t[i])), unit_step(t).v[i])])

\* a pulse that includes n = width
rect_Inclusive(t, width) ==
    Arr("float", [i \in 1..Len(t) |->
                    IF t[i] >= 0 /\ t[i] <= width THEN COne ELSE CZero])

\* np.where((t >= 0) & (t < width), 1.0, 0.0)
rect(t, width) ==
    Arr("float", [i \in 1..Len(t) |->
                    IF t[i] >= 0 /\ t[i] < width THEN COne ELSE CZero])

-----------------------------------------------------------------------------
(* dsp_engine.py: filter_signal                                            *)

\* lines 63-64: for k in range(M): if n - k >= 0: y[n] += b[k] * x[n - k]
RECURSIVE FeedForward(_, _, _, _, _)
FeedForward(b, x, y, n, k) ==
    IF k = Len(b) THEN y
    ELSE FeedForward(b, x,
            IF n - k >= 0
            THEN [y EXCEPT !.v[n + 1] =
                     Store(y.dtype, CAdd(@, CMul(b[k + 1], x.v[n - k + 1])))]
            ELSE y,
            n, k + 1)

\* lines 67-68: for m in range(1, N): if n - m >= 0: y[n] -= a[m] * y[n - m]
RECURSIVE FeedBack(_, _, _, _)
FeedBack(a, y, n, m) ==
    IF m >= Len(a) THEN y
    ELSE FeedBack(a,
            IF n - m >= 0
            THEN [y EXCEPT !.v[n + 1] =
                     Store(y.dtype, CSub(@, CMul(a[m + 1], y.v[n - m + 1])))]
            ELSE y,
            n, m + 1)

\* line 61: for n in range(len(x))
RECURSIVE FilterLoop(_, _, _, _, _)
FilterLoop(b, a, x, y, n) ==
    IF n = Len(x.v) THEN y
    ELSE FilterLoop(b, a, x, FeedBack(a, FeedForward(b, x, y, n, 0), n, 1), n + 1)

\* a normalisation that forgets the denominator
Normalize_NumeratorOnly(b, a) ==
    IF a[1] # COne /\ a[1] # CZero
    THEN <<[i \in 1..Len(b) |-> CDiv(b[i], a[1])], a>>
    ELSE <<b, a>>

\* lines 53-55: the coefficients the loop uses
Normalize(b, a) ==
    IF a[1] # COne /\ a[1] # CZero
    THEN <<[i \in 1..Len(b) |-> CDiv(b[i], a[1])],
           [i \in 1..Len(a) |-> CDiv(a[i], a[1])]>>
    ELSE <<b, a>>

filter_signal(b, a, x) ==
    LET ba == Normalize(b, a)
    IN  [raised |-> FALSE,
         value  |-> FilterLoop(ba[1], ba[2], x, zeros_like(x), 0)]

-----------------------------------------------------------------------------
(* The shared filter description of state_manager.py, as the engine reads  *)
(* it: a record of the five module globals.                                *)

SM == [zeros |-> zeros, poles |-> poles, system_gain |-> system_gain,
       system_delay |-> system_delay, N_impulse |-> N_impulse]

-----------------------------------------------------------------------------
(* dsp_engine.py: compute_H.  An angular frequency is an integer number of *)
(* grid units: w stands for the angle 2*pi*w/Turn.                         *)

\* np.exp(1j * w): w^k, and j^m * (1 - m*d*j) at the angle m * pi/2, which
\* the doubles hold as m * (pi/2 - d)
ExpJ(w) ==
    LET exact == CyShift(CyReal(ROne), w)
        m     == w \div Quarter
    IN  IF w % Quarter = 0 /\ w # 0
        THEN CMk(0, CyAdd(exact, CyRaise(CyScale(CyShift(exact, -Quarter), RInt(m)))))
        ELSE CMk(0, exact)

\* the exponent of ten of the clamp value 1e-10
ClampExp10 == 10

\* the divisor without the guard of lines 98-99
PoleDivisor_Unguarded(p0, z) ==
    [i \in 1..Len(z) |-> CSub(COne, CDiv(p0, z[i]))]

\* lines 97-99: the divisor of one pole, element by element
PoleDivisor(p0, z) ==
    [i \in 1..Len(z) |->
        LET denom == CSub(COne, CDiv(p0, z[i]))
        IN  IF AbsBelowPow10(denom, -ClampExp10) THEN CPow10(-ClampExp10) ELSE denom]

\* lines 92-93: for z0 in sm.zeros: H *= (1 - z0 / z)
RECURSIVE AccumulateZeros(_, _, _, _)
AccumulateZeros(H, zs, z, i) ==
    IF i > Len(zs) THEN H
    ELSE AccumulateZeros(
            Held([n \in 1..Len(H) |-> CMul(H[n], CSub(COne, CDiv(zs[i], z[n])))]),
            zs, z, i + 1)

\* lines 96-100: for p0 in sm.poles: H /= denom
RECURSIVE AccumulatePoles(_, _, _, _)
AccumulatePoles(H, ps, z, i) ==
    IF i > Len(ps) THEN H
    ELSE LET denom == Held(PoleDivisor(ps[i], z))
         IN  AccumulatePoles(
                Held([n \in 1..Len(H) |-> CDiv(H[n], denom[n])]),
                ps, z, i + 1)

\* z * delay in place of z ** delay
DelayFactor_Product(z, delay) == CMul(z, CReal(RInt(delay)))

\* lines 88-89: the factor of the system delay
DelayFactor(z, delay) == CPow(z, delay)

compute_H(sm, w_vals) ==
    LET z  == Held([n \in 1..Len(w_vals) |-> ExpJ(w_vals[n])])
        H0 == Held([n \in 1..Len(w_vals) |-> CMul(COne, sm.system_gain)])
        H1 == IF sm.system_delay # 0
              THEN Held([n \in 1..Len(w_vals) |->
                            CMul(H0[n], DelayFactor(z[n], sm.system_delay))])
              ELSE H0
    IN  AccumulatePoles(AccumulateZeros(H1, sm.zeros, z, 1), sm.poles, z, 1)

\* compute_H called with one frequency that is no array (a float or a 0-d
\* array).  z, and with it denom of line 97, is then a numpy scalar: the
\* item assignment of line 99 raises TypeError in the first round of the
\* pole loop.  Without poles the lines 81-93 work on scalars as on arrays.
compute_H_scalar(sm, w) ==
    IF Len(sm.poles) > 0
    THEN [raised |-> TRUE, value |-> CNonFinite]
    ELSE [raised |-> FALSE, value |-> compute_H(sm, <<w>>)[1]]

-----------------------------------------------------------------------------
(* dsp_engine.py: coeffs_quantized                                         *)

\* numpy.poly(roots): the monic polynomial with these roots, highest power
\* first, built by convolving with [1, -root] root after root.  (numpy then
\* drops the imaginary parts when the roots are closed under conjugation;
\* in exact arithmetic they are zero already.)
RECURSIVE PolyFrom(_, _, _)
PolyFrom(acc, roots, i) ==
    IF i > Len(roots) THEN acc
    ELSE PolyFrom(
            [k \in 1..(Len(acc) + 1) |->
                CSub(IF k <= Len(acc) THEN acc[k] ELSE CZero,
                     IF k >= 2 THEN CMul(roots[i], acc[k - 1]) ELSE CZero)],
            roots, i + 1)
poly(roots) == PolyFrom(<<COne>>, roots, 1)

\* lines 109-113: b and a before the rounding
poly_coeffs(sm) ==
    LET b == IF Len(sm.zeros) > 0 THEN poly(sm.zeros) ELSE <<COne>>
        a == IF Len(sm.poles) > 0 THEN poly(sm.poles) ELSE <<COne>>
    IN  <<[k \in 1..Len(b) |-> CMul(b[k], sm.system_gain)], a>>

\* the number of decimals coeffs_quantized keeps
Decimals == 3

RECURSIVE Pow10(_)
Pow10(k) == IF k = 0 THEN 1 ELSE 10 * Pow10(k - 1)

\* the nearest integer to a rational, halves to the even one (np.rint)
Rint(q) ==
    LET f == q[1] \div q[2]
        r == q[1] - f * q[2]
    IN  IF 2 * r < q[2] THEN f
        ELSE IF 2 * r > q[2] THEN f + 1
        ELSE IF f % 2 = 0 THEN f ELSE f + 1

RRound(q, decimals) == RNorm(Rint(RMul(q, RInt(Pow10(decimals)))), Pow10(decimals))

\* np.round(x, decimals) of one element: the real and the imaginary part are
\* rounded apart
Round(x, decimals) ==
    CASE x.nf -> x
      [] CyIsGauss(x.c) /\ x.e10 = 0 ->
            CGauss(RRound(CyCoef(x.c, 0), decimals),
                   RRound(CyCoef(x.c, Quarter), decimals))

\* line 115
Quantize(c) == [k \in 1..Len(c) |-> Round(c[k], Decimals)]

coeffs_quantized(sm) ==
    LET ba == poly_coeffs(sm)
    IN  <<Quantize(ba[1]), Quantize(ba[2])>>

-----------------------------------------------------------------------------
(* dsp_engine.py: stable_impulse_response                                  *)

\* The sums g[m] = sum over k of c[k] * e^{2 pi j k m / N}, m = 0..N-1, of a
\* sequence c of N coefficient maps, N a power of two that divides Turn,
\* by the radix-2 splitting into the terms of even and of odd k:
\*   g[m] = E[m] + w_N^m * O[m],  g[m + N/2] = E[m] - w_N^m * O[m]
RECURSIVE InverseSums(_)
InverseSums(c) ==
    LET N == Len(c)
        h == N \div 2
    IN  IF N = 1 THEN c
        ELSE LET E == Held(InverseSums([i \in 1..h |-> c[2 * i - 1]]))
                 O == Held(InverseSums([i \in 1..h |-> c[2 * i]]))
                 T == Held([i \in 1..h |-> CyShift(O[i], (i - 1) * (Turn \div N))])
             IN  [i \in 1..N |->
                    IF i <= h THEN CyAdd(E[i], T[i])
                    ELSE CyAdd(E[i - h], CyScale(T[i - h], RInt(-1)))]

\* numpy.fft.ifft(H): h[m] = (1/N) * sum over k of H[k] * e^{2 pi j k m / N},
\* for the lengths the program uses and elements without a power of ten
ifft(H) ==
    LET N == Len(H)
    IN  CASE \E k \in 1..N : H[k].nf -> [m \in 1..N |-> CNonFinite]
          [] (\A k \in 1..N : H[k].e10 = 0) /\ Turn % N = 0 ->
                LET g == Held(InverseSums([k \in 1..N |-> H[k].c]))
                IN  [m \in 1..N |-> CMk(0, CyScale(g[m], <<1, N>>))]

\* lines 124-125: the grid 2 pi k / N, k = 0..N-1, in grid units
w_fft(sm) ==
    LET k == arange(0, sm.N_impulse)
    IN  [i \in 1..Len(k) |-> k[i] * (Turn \div sm.N_impulse)]

stable_impulse_response(sm) ==
    LET H_fft     == compute_H(sm, w_fft(sm))
        h         == Held(ifft(H_fft))
        h_shifted == fftshift(h)
        n         == arange(-(sm.N_impulse \div 2), sm.N_impulse \div 2)
    IN  <<n, [i \in 1..Len(h_shifted) |-> CRe(h_shifted[i])]>>

-----------------------------------------------------------------------------
(* The state after the modules are loaded (state_manager.py, lines 27-50). *)

\* Python's None, for sm.dragging, sm.selected and a cancelled dialog
None == <<>>

\* the display options a new root gets: {'show': False, 'show_polar': False}
NewOpts == [show |-> FALSE, show_polar |-> FALSE]

\* The interaction state of state_manager.py and interactions.py as the
\* modules leave it and main.py sets it up.  tk_root tells whether
\* interactions._tk_root holds a Tk root: main.py gives init_interactions
\* None (line 433) and nothing assigns it afterwards, so it never does.
\* events counts the handler calls made so far.
UiDefaults ==
    [mode |-> "none", dragging |-> None, selected |-> None,
     add_conjugates |-> FALSE, zeros_opts |-> <<>>, poles_opts |-> <<>>,
     tk_root |-> FALSE, events |-> 0]

\* the plot lines as main.py creates them, before any update_all
NoPlots == [drawn |-> FALSE]

\* update_all (main.py 229-349) reads the description once and draws three
\* things from it: the frequency response compute_H(sm.w_hires), the
\* coefficients coeffs_quantized() and the impulse response
\* stable_impulse_response().  The plots are held as the description sm they
\* were drawn from; what they show is computed from it below.
update_all(sm) == [drawn |-> TRUE, of |-> sm]

\* the first point of sm.w_hires = linspace(-pi, pi, 2048)
w_shown == <<-Half>>

\* line 254: the frequency response on the magnitude and phase plots
shown_H == compute_H(plots.of, w_shown)

\* line 276: the coefficients in the transfer-function text
shown_coeffs == coeffs_quantized(plots.of)

\* line 292: the stems of the impulse-response plot
shown_impulse == stable_impulse_response(plots.of)

Init ==
    /\ zeros = <<>>
    /\ poles = <<>>
    /\ system_gain = COne
    /\ system_delay = 0
    /\ N_impulse = 64
    /\ ui = UiDefaults
    /\ plots = NoPlots
    /\ call = [fn |-> "none", st |-> "returned"]

description == <<zeros, poles, system_gain, system_delay, N_impulse>>

\* every sequence over S of a length in lo..hi
SeqsOf(S, lo, hi) == UNION {[1..n -> S] : n \in lo..hi}

J == CGauss(RZero, ROne)

-----------------------------------------------------------------------------
(* filter_signal called on its own: SpecFilter.  The call is made with     *)
(* any coefficients and any signal within the bounds, and then returns.    *)

MaxTaps == 2        \* the longest b and a
MaxLen == 3         \* the longest signal x

TapValues == {CReal(<<1, 2>>), J}
FeedbackValues == {CReal(<<-1, 2>>), J}
LeadValues == {CZero, COne, CReal(<<2, 1>>)}
FilterSignals ==
    {Arr("float", v) : v \in SeqsOf({COne, CReal(<<1, 2>>)}, 0, MaxLen)}
    \cup {Arr("complex", v) : v \in SeqsOf({COne, J}, 0, MaxLen)}

InitFilter ==
    /\ ui = UiDefaults /\ plots = NoPlots
    /\ zeros = <<>> /\ poles = <<>> /\ system_gain = COne
    /\ system_delay = 0 /\ N_impulse = 64
    /\ \E b \in SeqsOf(TapValues, 1, MaxTaps),
          a0 \in LeadValues,
          at \in SeqsOf(FeedbackValues, 0, MaxTaps - 1),
          x \in FilterSignals :
          call = [fn |-> "filter_signal", st |-> "called",
                  b |-> b, a |-> <<a0>> \o at, x |-> x]

\* a return after a normalisation done in place (b /= a[0]; a /= a[0])
FilterSignalReturn_InPlace ==
    /\ call.fn = "filter_signal" /\ call.st = "called"
    /\ call' = [fn |-> "filter_signal", st |-> "returned",
                b |-> Normalize(call.b, call.a)[1],
                a |-> Normalize(call.b, call.a)[2], x |-> call.x,
                ret |-> filter_signal(call.b, call.a, call.x)]
    /\ UNCHANGED <<description, ui, plots>>

FilterSignalReturn ==
    /\ call.fn = "filter_signal" /\ call.st = "called"
    /\ call' = [fn |-> "filter_signal", st |-> "returned",
                b |-> call.b, a |-> call.a, x |-> call.x,
                ret |-> filter_signal(call.b, call.a, call.x)]
    /\ UNCHANGED <<description, ui, plots>>

NextFilter == FilterSignalReturn

SpecFilter == InitFilter /\ [][NextFilter]_vars

FilterReturned == call.fn = "filter_signal" /\ call.st = "returned"

\* sum over k in 0..M-1 of b[k] * x[n-k], a negative index counting as zero
RECURSIVE ForwardSum(_, _, _, _)
ForwardSum(b, xv, n, k) ==
    IF k = Len(b) THEN CZero
    ELSE CAdd(IF n - k >= 0 THEN CMul(b[k + 1], xv[n - k + 1]) ELSE CZero,
              ForwardSum(b, xv, n, k + 1))

\* sum over m in 1..N-1 of a[m] * y[n-m], a negative index counting as zero
RECURSIVE BackwardSum(_, _, _, _)
BackwardSum(a, yv, n, m) ==
    IF m >= Len(a) THEN CZero
    ELSE CAdd(IF n - m >= 0 THEN CMul(a[m + 1], yv[n - m + 1]) ELSE CZero,
              BackwardSum(a, yv, n, m + 1))

\* C1: with a[0] = 1, filter_signal returns y of the length of x with
\* y[n] = sum b[k] x[n-k] - sum a[m] y[n-m] for every n, terms of a negative
\* index counting as zero.
C1_DifferenceEquation ==
    (FilterReturned /\ call.a[1] = COne) =>
        /\ ~call.ret.raised
        /\ Len(call.ret.value.v) = Len(call.x.v)
        /\ \A n \in 0..(Len(call.x.v) - 1) :
              call.ret.value.v[n + 1] =
                  CSub(ForwardSum(call.b, call.x.v, n, 0),
                       BackwardSum(call.a, call.ret.value.v, n, 1))

\* C7: a call with a[0] = 0 is rejected with an error and returns no output.
C7_ZeroLeadRejected ==
    (FilterReturned /\ call.a[1] = CZero) => call.ret.raised

ScaleValues == {CReal(<<2, 1>>), CReal(<<-1, 2>>), J}
Scaled(c, s) == [i \in 1..Len(c) |-> CMul(s, c[i])]
Divided(c, s) == [i \in 1..Len(c) |-> CDiv(c[i], s)]

\* C8: with a[0] neither 0 nor 1 the result is that of the call with b/a[0]
\* and a/a[0], and it does not change when b and a are multiplied by the
\* same non-zero constant.
C8_NormalizedByLead ==
    (FilterReturned /\ call.a[1] # CZero /\ call.a[1] # COne) =>
        /\ call.ret = filter_signal(Divided(call.b, call.a[1]),
                                    Divided(call.a, call.a[1]), call.x)
        /\ \A s \in ScaleValues :
              call.ret = filter_signal(Scaled(call.b, s), Scaled(call.a, s), call.x)

\* a call with a[0] = 2 and a feedback term returned a non-zero second sample
C8_Witness ==
    /\ FilterReturned
    /\ call.a[1] = CReal(<<2, 1>>) /\ Len(call.a) >= 2
    /\ Len(call.x.v) >= 2
    /\ ~IsZero(call.ret.value.v[2])

-----------------------------------------------------------------------------
(* compute_H called on its own: SpecH.  The filter description is any      *)
(* within the bounds; the frequencies are quarter turns, where e^{jw} and  *)
(* every divisor 1 - p/z are Gaussian rationals, so that a pole can lie    *)
(* exactly on an evaluation point.                                         *)

MaxRoots == 2       \* the longest list of zeros and of poles
MaxDelay == 1       \* the largest |system_delay|

Gains == {COne, CReal(<<2, 1>>)}
HZeroValues == {CReal(<<1, 2>>), J}
HPoleValues == {CReal(<<1, 2>>), J, COne}
HBatches == {<<Quarter>>, <<0, Quarter, Half, -Quarter>>, <<Half, 0>>}

InitH ==
    /\ ui = UiDefaults /\ plots = NoPlots
    /\ zeros \in SeqsOf(HZeroValues, 0, MaxRoots)
    /\ poles \in SeqsOf(HPoleValues, 0, MaxRoots)
    /\ system_gain \in Gains
    /\ system_delay \in (-MaxDelay)..MaxDelay
    /\ N_impulse = 64
    /\ \E w \in HBatches : call = [fn |-> "compute_H", st |-> "called", w |-> w]

ComputeHReturn ==
    /\ call.fn = "compute_H" /\ call.st = "called"
    /\ call' = [fn |-> "compute_H", st |-> "returned", w |-> call.w,
                ret |-> compute_H(SM, call.w)]
    /\ UNCHANGED <<description, ui, plots>>

NextH == ComputeHReturn

SpecH == InitH /\ [][NextH]_vars

HReturned == call.fn = "compute_H" /\ call.st = "returned"

\* the product over the roots rs of (1 - r/z)
RECURSIVE RootProduct(_, _, _)
RootProduct(rs, z, i) ==
    IF i > Len(rs) THEN COne
    ELSE CMul(CSub(COne, CDiv(rs[i], z)), RootProduct(rs, z, i + 1))

\* no pole of the description is within 1e-10 of the point z
NoPoleNear(z) ==
    \A i \in 1..Len(poles) : ~AbsBelowPow10(CSub(COne, CDiv(poles[i], z)), -ClampExp10)

\* gain * e^{-jw*delay} * prod(1 - z_i/z) / prod(1 - p_i/z), z = e^{jw}
TransferFunction(w) ==
    CDiv(CMul(CMul(system_gain, ExpJ(-(w * system_delay))),
              RootProduct(zeros, ExpJ(w), 1)),
         RootProduct(poles, ExpJ(w), 1))

\* C2: compute_H applies the delay as z^(-delay): away from the poles
\* H = gain * e^{-jw*delay} * prod(1 - z_i/z) / prod(1 - p_i/z); with gain 2,
\* delay 1 and no roots, H at w = pi/2 is -2j.
C2_DelayIsNegativePower ==
    HReturned =>
        \A i \in 1..Len(call.w) :
            NoPoleNear(ExpJ(call.w[i])) => call.ret[i] = TransferFunction(call.w[i])

\* the divisor the guard of compute_H is said to leave for the pole p at z
GuardedDivisor(p, z) ==
    LET d == CSub(COne, CDiv(p, z))
    IN  IF AbsBelowPow10(d, -ClampExp10) THEN CPow10(-ClampExp10) ELSE d

RECURSIVE GuardedProduct(_, _, _)
GuardedProduct(ps, z, i) ==
    IF i > Len(ps) THEN COne
    ELSE CMul(GuardedDivisor(ps[i], z), GuardedProduct(ps, z, i + 1))

\* C3: every divisor compute_H uses has magnitude >= 1e-10: it is 1e-10
\* where |1 - p/z| < 1e-10 and 1 - p/z elsewhere; so H is finite everywhere
\* and H times the divisors is the numerator gain * z^delay * prod(1 - z_i/z).
C3_DivisorGuard ==
    HReturned =>
        \A i \in 1..Len(call.w) :
            LET z == ExpJ(call.w[i])
            IN  /\ ~call.ret[i].nf
                /\ \A k \in 1..Len(poles) :
                      ~AbsBelowPow10(GuardedDivisor(poles[k], z), -ClampExp10)
                /\ CMul(call.ret[i], GuardedProduct(poles, z, 1)) =
                      compute_H([SM EXCEPT !.poles = <<>>], <<call.w[i]>>)[1]

\* a pole lies exactly on an evaluation point, and H is finite and not zero there
C3_Witness ==
    /\ HReturned
    /\ \E i \in 1..Len(call.w) :
          /\ \E k \in 1..Len(poles) : poles[k] = ExpJ(call.w[i])
          /\ ~call.ret[i].nf /\ ~IsZero(call.ret[i])

-----------------------------------------------------------------------------
(* stable_impulse_response called on its own: SpecImp.  Every FFT size is  *)
(* taken with the description the program starts with, and the two         *)
(* smallest sizes with every description of ImpZeros, ImpPoles, Gains and  *)
(* delays up to MaxDelay.  The poles are at the origin, where 1 - p/z = 1  *)
(* on every grid point.                                                    *)

ImpLengths == {Options[1], Options[2]}
ImpZeros == {<<>>, <<CReal(<<1, 2>>)>>, <<J>>, <<CReal(<<1, 2>>), J>>}
ImpPoles == {<<>>, <<CZero>>}

InitImp ==
    /\ ui = UiDefaults /\ plots = NoPlots
    /\ call = [fn |-> "stable_impulse_response", st |-> "called"]
    /\ \/ /\ zeros = <<>> /\ poles = <<>>
          /\ system_gain = COne /\ system_delay = 0
          /\ N_impulse \in {Options[i] : i \in 1..Len(Options)}
       \/ /\ zeros \in ImpZeros
          /\ poles \in ImpPoles
          /\ system_gain \in Gains
          /\ system_delay \in (-MaxDelay)..MaxDelay
          /\ N_impulse \in ImpLengths

StableImpulseResponseReturn ==
    /\ call.fn = "stable_impulse_response" /\ call.st = "called"
    /\ call' = [fn |-> "stable_impulse_response", st |-> "returned",
                ret |-> stable_impulse_response(SM)]
    /\ UNCHANGED <<description, ui, plots>>

NextImp == StableImpulseResponseReturn

SpecImp == InitImp /\ [][NextImp]_vars

ImpReturned == call.fn = "stable_impulse_response" /\ call.st = "returned"

\* C4: stable_impulse_response returns n and h of length N, n = -N/2 .. N/2-1
\* in increasing order, and h at position i (from 0) is the real part of the
\* unshifted inverse-DFT sample (i + N/2) mod N: sample 0 is paired with n = 0.
C4_CenteredPairing ==
    ImpReturned =>
        LET n == call.ret[1]
            h == call.ret[2]
            N == N_impulse
            unshifted == Held(ifft(compute_H(SM, w_fft(SM))))
        IN  /\ Len(n) = N /\ Len(h) = N
            /\ \A i \in 0..(N - 1) :
                  /\ n[i + 1] = i - N \div 2
                  /\ h[i + 1] = CRe(unshifted[((i + N \div 2) % N) + 1])
            /\ \A k \in 0..(N - 1) :
                  LET i == (k + N \div 2) % N
                  IN  /\ h[i + 1] = CRe(unshifted[k + 1])
                      /\ n[i + 1] = IF k < N \div 2 THEN k ELSE k - N

\* a response with a zero in the description: the sample paired with n = 0
\* differs from the first sample of the returned sequence
C4_Witness ==
    /\ ImpReturned
    /\ Len(zeros) > 0
    /\ call.ret[1][N_impulse \div 2 + 1] = 0
    /\ ~IsZero(call.ret[2][N_impulse \div 2 + 1])
    /\ call.ret[2][N_impulse \div 2 + 1] # call.ret[2][1]

\* C5: with no zeros and no poles and |delay| < N/2 the response is one
\* sample: the gain at n = delay, and 0 at every other index.
C5_ImpulseAtDelay ==
    (ImpReturned /\ zeros = <<>> /\ poles = <<>> /\ 2 * Abs(system_delay) < N_impulse) =>
        \A i \in 1..N_impulse :
            call.ret[2][i] = IF call.ret[1][i] = system_delay THEN system_gain ELSE CZero

-----------------------------------------------------------------------------
(* coeffs_quantized called on its own: SpecCoef.                           *)

CoefZeroValues == {CReal(<<1, 16>>), J}
CoefPoleValues == {CReal(<<1, 2>>), CReal(<<1, 16>>)}

CoefGains == Gains \cup {CReal(<<1, 16>>)}

InitCoef ==
    /\ ui = UiDefaults /\ plots = NoPlots
    /\ zeros \in SeqsOf(CoefZeroValues, 0, MaxRoots)
    /\ poles \in SeqsOf(CoefPoleValues, 0, MaxRoots)
    /\ system_gain \in CoefGains
    /\ system_delay \in (-MaxDelay)..MaxDelay
    /\ N_impulse = 64
    /\ call = [fn |-> "coeffs_quantized", st |-> "called"]

CoeffsQuantizedReturn ==
    /\ call.fn = "coeffs_quantized" /\ call.st = "called"
    /\ call' = [fn |-> "coeffs_quantized", st |-> "returned",
                ret |-> coeffs_quantized(SM)]
    /\ UNCHANGED <<description, ui, plots>>

NextCoef == CoeffsQuantizedReturn

SpecCoef == InitCoef /\ [][NextCoef]_vars

CoefReturned == call.fn = "coeffs_quantized" /\ call.st = "returned"

\* the polynomial c (highest power first) at the point r, by Horner's rule
RECURSIVE PolyValFrom(_, _, _, _)
PolyValFrom(acc, c, r, i) ==
    IF i > Len(c) THEN acc
    ELSE PolyValFrom(CAdd(CMul(acc, r), c[i]), c, r, i + 1)
PolyVal(c, r) == PolyValFrom(CZero, c, r, 1)

\* abs(x) <= 10^k, for a Gaussian rational x and k < 0
AbsAtMostPow10(x, k) ==
    LET m == CyNorm2(x.c)
    IN  ~x.nf /\ (m[1] = 0 \/ DivPow10(m[2] \div m[1], -(2 * k)) >= 1)

\* C10: for non-empty zero and pole lists, b of coeffs_quantized at each zero
\* and a of coeffs_quantized at each pole have magnitude at most 1e-6.
C10_RootsOfQuantized ==
    (CoefReturned /\ Len(zeros) > 0 /\ Len(poles) > 0) =>
        /\ \A i \in 1..Len(zeros) :
              AbsAtMostPow10(PolyVal(call.ret[1], zeros[i]), -6)
        /\ \A i \in 1..Len(poles) :
              AbsAtMostPow10(PolyVal(call.ret[2], poles[i]), -6)

-----------------------------------------------------------------------------
(* ui_components.py: show_signal_analysis, up to the plotting.             *)

\* line 215: the value of the expression of the signal box on n_array
EvalSignal(expr, n_array) ==
    CASE expr = "u(n)" -> unit_step(n_array)
      [] expr = "d(n)" -> impulse(n_array)

\* a circular shift whose wrapped samples stay
AlignDelay_Circular(y, delay) ==
    IF delay = 0 THEN y ELSE Arr(y.dtype, roll(y.v, delay))

\* lines 235-238: the output moved by the system delay, the wrapped part cleared
AlignDelay(y, delay) ==
    IF delay = 0 THEN y
    ELSE LET r == roll(y.v, delay)
         IN  Arr(y.dtype,
                 [i \in 1..Len(r) |->
                     IF delay > 0
                     THEN IF i <= delay THEN CZero ELSE r[i]
                     ELSE IF i > Len(r) + delay THEN CZero ELSE r[i]])

\* lines 215-217: the exception that eval and the conversion to a float
\* array raise on the expression, "none" where they succeed.  A name that
\* math_env lacks is looked up in the builtins, which are None here: the
\* lookup raises TypeError and no NameError.  "pt" is bound to a lambda
\* that calls dsp.pulse_train_gen, which dsp_engine.py lacks.
ExprError(expr) ==
    CASE expr = "u(n"         -> "SyntaxError"
      [] expr = "foo(n)"      -> "TypeError"
      [] expr = "u()"         -> "TypeError"
      [] expr = "1 / 0"       -> "ZeroDivisionError"
      [] expr = "pt(0, 2, 3)" -> "AttributeError"
      [] OTHER                -> "none"

\* an except clause that names ValueError alone
CaughtByExcept_ValueErrorOnly(kind) == kind = "ValueError"

\* line 219: `except Exception` catches every class derived from Exception
CaughtByExcept(kind) ==
    kind \in {"SyntaxError", "NameError", "TypeError", "ZeroDivisionError",
              "AttributeError", "ValueError"}

\* `raised` is the exception that leaves the handler ("none": it returns),
\* `reported` the condition shown to the user (lines 223-225), and
\* `filter_called` whether line 233 was reached.
show_signal_analysis(sm, expr, num_pts) ==
    LET n_array == arange(0, num_pts)
        err == ExprError(expr)
        x  == EvalSignal(expr, n_array)
        ba == coeffs_quantized(sm)
        y  == filter_signal(ba[1], ba[2], x).value
    IN  IF err # "none"
        THEN IF CaughtByExcept(err)
             THEN [raised |-> "none", reported |-> "Invalid Expression",
                   filter_called |-> FALSE]
             ELSE [raised |-> err, reported |-> "", filter_called |-> FALSE]
        ELSE [raised |-> "none", reported |-> "", filter_called |-> TRUE,
              x |-> x, filter_args |-> ba, y |-> AlignDelay(y, sm.system_delay)]

MaxPts == 5         \* the largest number of samples of the signal box

\* 0.50048828125 is a double and rounds to 0.5 at three decimals; 0.0625
\* rounds to 0.062
FinePole == CReal(<<1025, 2048>>)
SignalZeros == {<<>>, <<CReal(<<1, 16>>)>>, <<J>>, <<CReal(<<1, 16>>), J>>}
SignalPoles == {<<>>, <<CReal(<<1, 2>>)>>, <<FinePole>>,
                <<CReal(<<1, 2>>), FinePole>>, <<FinePole, CReal(<<1, 2>>)>>}

InitSignal ==
    /\ ui = UiDefaults /\ plots = NoPlots
    /\ zeros \in SignalZeros
    /\ poles \in SignalPoles
    /\ system_gain \in Gains
    /\ system_delay \in (-MaxDelay)..MaxDelay
    /\ N_impulse = 64
    /\ \E expr \in {"u(n)", "d(n)"}, num_pts \in {1, MaxPts} :
          call = [fn |-> "show_signal_analysis", st |-> "called",
                  expr |-> expr, num_pts |-> num_pts]

ShowSignalAnalysisReturn ==
    /\ call.fn = "show_signal_analysis" /\ call.st = "called"
    /\ call' = [fn |-> "show_signal_analysis", st |-> "returned",
                expr |-> call.expr, num_pts |-> call.num_pts,
                ret |-> show_signal_analysis(SM, call.expr, call.num_pts)]
    /\ UNCHANGED <<description, ui, plots>>

NextSignal == ShowSignalAnalysisReturn

SpecSignal == InitSignal /\ [][NextSignal]_vars

SignalReturned == call.fn = "show_signal_analysis" /\ call.st = "returned"

\* C6: the coefficients the signal-analysis path passes to filter_signal are
\* the full-precision coefficients derived from the roots, not the rounded ones.
C6_FilterGetsFullPrecision ==
    SignalReturned => call.ret.filter_args = poly_coeffs(SM)

\* C9: for a single real pole p, no zeros, gain 1, delay 0 and a step input,
\* the coefficients are b = [1], a = [1, -p] and the output is
\* y[n] = 1 + p * y[n-1] with y[-1] = 0; for p = 0.5 and n = 0..4 this is
\* 1, 1.5, 1.75, 1.875, 1.9375.
C9_SinglePoleStep ==
    (/\ SignalReturned /\ call.expr = "u(n)"
     /\ zeros = <<>> /\ Len(poles) = 1
     /\ system_gain = COne /\ system_delay = 0) =>
        LET p == poles[1]
            y == call.ret.y.v
        IN  /\ call.ret.filter_args = <<<<COne>>, <<COne, CNeg(p)>>>>
            /\ Len(y) = call.num_pts
            /\ \A n \in 1..Len(y) :
                  y[n] = CAdd(COne, CMul(p, IF n = 1 THEN CZero ELSE y[n - 1]))

-----------------------------------------------------------------------------
(* coeffs_quantized: the shape of the result (SpecCoef)                    *)

CoefShape ==
    /\ Len(call.ret[1]) = Len(zeros) + 1
    /\ Len(call.ret[2]) = Len(poles) + 1
    /\ call.ret[2][1] = COne

\* C11: with no zeros and no poles coeffs_quantized returns
\* a = [1.0] and b = [gain], whatever the delay; and always
\* len(b) = len(zeros) + 1, len(a) = len(poles) + 1, a[0] = 1.
C11_EmptyGivesGain ==
    CoefReturned =>
        /\ CoefShape
        /\ (zeros = <<>> /\ poles = <<>>) =>
              /\ call.ret[2] = <<COne>>
              /\ call.ret[1] = <<system_gain>>

-----------------------------------------------------------------------------
(* compute_H at w = 0 (SpecH)                                              *)

\* C12: where no pole lies within 1e-10 of z = 1, compute_H at w = 0 is
\* gain * prod(1 - z_i) / prod(1 - p_i), whatever the delay.
C12_ValueAtZeroFrequency ==
    (HReturned /\ NoPoleNear(COne)) =>
        \A i \in 1..Len(call.w) :
            call.w[i] = 0 =>
                call.ret[i] = CDiv(CMul(system_gain, RootProduct(zeros, COne, 1)),
                                   RootProduct(poles, COne, 1))

\* a description with zeros, poles away from 1 and a delay, evaluated at w = 0
C12_Witness ==
    /\ HReturned /\ NoPoleNear(COne)
    /\ Len(zeros) > 0 /\ Len(poles) > 0 /\ system_delay # 0
    /\ \E i \in 1..Len(call.w) : call.w[i] = 0 /\ ~IsZero(call.ret[i])

-----------------------------------------------------------------------------
(* compute_H on a batch and then on one frequency of it: SpecHOne.  The    *)
(* batch and the position are drawn at the start; the description does     *)
(* not change between the two calls.                                       *)

OneZeros == {<<>>, <<CReal(<<1, 2>>)>>, <<J, CReal(<<1, 2>>)>>}
OnePoles == {<<>>, <<CReal(<<1, 2>>)>>, <<J>>}

InitHOne ==
    /\ ui = UiDefaults /\ plots = NoPlots
    /\ zeros \in OneZeros
    /\ poles \in OnePoles
    /\ system_gain \in Gains
    /\ system_delay \in (-MaxDelay)..MaxDelay
    /\ N_impulse = 64
    /\ \E w \in HBatches : \E i \in 1..Len(w) :
          call = [fn |-> "compute_H", st |-> "called", w |-> w, i |-> i]

BatchReturn ==
    /\ call.fn = "compute_H" /\ call.st = "called" /\ "i" \in DOMAIN call
    /\ call' = [fn |-> "compute_H", st |-> "batch_returned", w |-> call.w,
                i |-> call.i, batch |-> compute_H(SM, call.w)]
    /\ UNCHANGED <<description, ui, plots>>

SingleReturn ==
    /\ call.fn = "compute_H" /\ call.st = "batch_returned"
    /\ call' = [fn |-> "compute_H", st |-> "returned", w |-> call.w,
                i |-> call.i, batch |-> call.batch,
                single |-> compute_H_scalar(SM, call.w[call.i])]
    /\ UNCHANGED <<description, ui, plots>>

NextHOne == BatchReturn \/ SingleReturn

SpecHOne == InitHOne /\ [][NextHOne]_vars

HOneReturned == call.fn = "compute_H" /\ call.st = "returned" /\ "single" \in DOMAIN call

\* C13: for every description, batch and position i, compute_H on the single
\* frequency w[i] succeeds and returns exactly the batch result at position i.
C13_SingleEqualsBatch ==
    HOneReturned =>
        /\ ~call.single.raised
        /\ call.single.value = call.batch[call.i]

-----------------------------------------------------------------------------
(* The four engine functions, each called on its own: SpecEngine           *)

InitEngine == InitFilter \/ InitH \/ InitImp \/ InitCoef

NextEngine ==
    \/ FilterSignalReturn
    \/ ComputeHReturn
    \/ StableImpulseResponseReturn
    \/ CoeffsQuantizedReturn

SpecEngine == InitEngine /\ [][NextEngine]_vars

\* C15: compute_H, coeffs_quantized, stable_impulse_response and
\* filter_signal leave zeros, poles, system_gain, system_delay and N_impulse
\* unchanged, and filter_signal leaves its arguments b, a and x unchanged,
\* also when it normalizes by a[0].
C15_EngineWritesNothing ==
    [][/\ description' = description
       /\ call.fn \in {"compute_H", "coeffs_quantized", "stable_impulse_response",
                       "filter_signal"}
       /\ call.fn = "filter_signal" =>
             /\ call'.b = call.b
             /\ call'.a = call.a
             /\ call'.x = call.x]_vars

\* filter_signal has returned from a call that normalized by a[0]
C15_Witness ==
    /\ FilterReturned
    /\ call.a[1] # COne /\ call.a[1] # CZero
    /\ Normalize(call.b, call.a) # <<call.b, call.a>>
    /\ Len(call.x.v) > 0

-----------------------------------------------------------------------------
(* show_signal_analysis on any text of the signal box: SpecSignalAny       *)

SignalExprs == {"u(n)", "d(n)", "u(n", "foo(n)", "u()", "1 / 0", "pt(0, 2, 3)"}

InitSignalAny ==
    /\ ui = UiDefaults /\ plots = NoPlots
    /\ zeros \in SignalZeros
    /\ poles \in SignalPoles
    /\ system_gain \in Gains
    /\ system_delay \in (-MaxDelay)..MaxDelay
    /\ N_impulse = 64
    /\ \E expr \in SignalExprs, num_pts \in {1, MaxPts} :
          call = [fn |-> "show_signal_analysis", st |-> "called",
                  expr |-> expr, num_pts |-> num_pts]

NextSignalAny == ShowSignalAnalysisReturn

SpecSignalAny == InitSignalAny /\ [][NextSignalAny]_vars

\* C16: a failure while evaluating the signal expression is caught and
\* reported as one invalid-expression condition; the handler returns with
\* zeros, poles, system_gain, system_delay and N_impulse as before and
\* without calling filter_signal.
C16_InvalidExpressionCaught ==
    [][(call.fn = "show_signal_analysis" /\ ExprError(call.expr) # "none") =>
          /\ call'.st = "returned"
          /\ call'.ret.raised = "none"
          /\ call'.ret.reported = "Invalid Expression"
          /\ ~call'.ret.filter_called
          /\ description' = description]_vars

\* the handler has returned from an expression that calls the missing
\* pulse_train_gen, on a description that is not the initial one
C16_Witness ==
    /\ SignalReturned
    /\ call.expr = "pt(0, 2, 3)"
    /\ call.ret.reported = "Invalid Expression"
    /\ Len(poles) > 0

-----------------------------------------------------------------------------
(* formatting_utils.py: parse_complex_list.  A string is a sequence of     *)
(* one-character strings.                                                  *)

DigitValue(c) == CASE c = "1" -> 1 [] c = "2" -> 2
IsDigit(c) == c \in {"1", "2"}

\* the digits of p from position i on: <<their decimal value, the position
\* after the last of them>>
RECURSIVE ReadDigits(_, _, _)
ReadDigits(p, i, acc) ==
    IF i <= Len(p) /\ IsDigit(p[i])
    THEN ReadDigits(p, i + 1, 10 * acc + DigitValue(p[i]))
    ELSE <<acc, i>>

IsSign(c) == c \in {"+", "-"}

\* Python's conversion of the longest numeric prefix of p from position i
\* on: an optional sign, then at least one digit or the word nan (nf: the
\* number is not finite; next = i: no number there)
ReadNumber(p, i) ==
    LET signed == i <= Len(p) /\ IsSign(p[i])
        from   == IF signed THEN i + 1 ELSE i
        sign   == IF signed /\ p[i] = "-" THEN -1 ELSE 1
        d      == ReadDigits(p, from, 0)
    IN  IF d[2] > from THEN [val |-> sign * d[1], nf |-> FALSE, next |-> d[2]]
        ELSE IF from + 2 <= Len(p) /\ SubSeq(p, from, from + 2) = <<"n", "a", "n">>
        THEN [val |-> 0, nf |-> TRUE, next |-> from + 3]
        ELSE [val |-> 0, nf |-> FALSE, next |-> i]

NoValue == [ok |-> FALSE, value |-> CZero]
Value(re, im) == [ok |-> TRUE, value |-> CGauss(RInt(re), RInt(im))]

\* the complex number of a real part x and an imaginary part y as
\* ReadNumber gives them: nan in either part gives a number that is not finite
ValueOf(x, y) == IF x.nf \/ y.nf THEN [ok |-> TRUE, value |-> CNonFinite]
                 ELSE Value(x.val, y.val)

Finite(v) == [val |-> v, nf |-> FALSE, next |-> 0]

\* float(p) of a string without blanks: ok = FALSE stands for ValueError
PyFloat(p) ==
    LET n == ReadNumber(p, 1)
    IN  IF n.next > 1 /\ n.next = Len(p) + 1 THEN ValueOf(n, Finite(0)) ELSE NoValue

\* complex(p) of a string without blanks and parentheses: <float>,
\* <float>j, <float><signed-float>j, <float><sign>j, <sign>j or j
PyComplex(p) ==
    LET L == Len(p)
        n == ReadNumber(p, 1)
        i == n.next
    IN  IF i > 1
        THEN IF i > L THEN ValueOf(n, Finite(0))
             ELSE IF p[i] = "j"
                  THEN IF i = L THEN ValueOf(Finite(0), n) ELSE NoValue
             ELSE IF IsSign(p[i])
                  THEN LET y  == ReadNumber(p, i)
                           k  == IF y.next > i THEN y.next ELSE i + 1
                           im == IF y.next > i THEN y
                                 ELSE Finite(IF p[i] = "-" THEN -1 ELSE 1)
                       IN  IF k = L /\ p[k] = "j" THEN ValueOf(n, im) ELSE NoValue
             ELSE NoValue
        ELSE LET k == IF L >= 1 /\ IsSign(p[1]) THEN 2 ELSE 1
             IN  IF k = L /\ p[k] = "j"
                 THEN Value(0, IF k = 2 /\ p[1] = "-" THEN -1 ELSE 1) ELSE NoValue

\* text.split(','): the pieces between the commas
RECURSIVE Split(_, _, _)
Split(text, i, piece) ==
    IF i > Len(text) THEN <<piece>>
    ELSE IF text[i] = "," THEN <<piece>> \o Split(text, i + 1, <<>>)
    ELSE Split(text, i + 1, Append(piece, text[i]))

IsClutter(c) == c \in {" ", "(", ")"}
IsKept(c) == ~IsClutter(c)

\* line 95: p.strip().replace('(', '').replace(')', '').replace(' ', '')
CleanToken(p) == SelectSeq(p, IsKept)

\* lines 97-103: what one cleaned token adds to the list
TokenValues(p) ==
    IF PyComplex(p).ok THEN <<PyComplex(p).value>>
    ELSE IF PyFloat(p).ok THEN <<PyFloat(p).value>>
    ELSE <<>>

\* a loop that ends at the first token that does not parse
RECURSIVE ParseTokens_StopAtBad(_, _)
ParseTokens_StopAtBad(parts, i) ==
    IF i > Len(parts) THEN <<>>
    ELSE LET p == CleanToken(parts[i])
         IN  IF p = <<>> THEN ParseTokens_StopAtBad(parts, i + 1)
             ELSE IF TokenValues(p) = <<>> THEN <<>>
             ELSE TokenValues(p) \o ParseTokens_StopAtBad(parts, i + 1)

\* lines 94-102: for p in parts
RECURSIVE ParseTokens(_, _)
ParseTokens(parts, i) ==
    IF i > Len(parts) THEN <<>>
    ELSE LET p == CleanToken(parts[i])
         IN  IF p = <<>> THEN ParseTokens(parts, i + 1)
             ELSE TokenValues(p) \o ParseTokens(parts, i + 1)

IsBlank(text) == \A i \in 1..Len(text) : text[i] = " "

parse_complex_list(text) ==
    IF IsBlank(text) THEN [raised |-> FALSE, value |-> <<>>]
    ELSE [raised |-> FALSE, value |-> ParseTokens(Split(text, 1, <<>>), 1)]

-----------------------------------------------------------------------------
(* parse_complex_list called on its own: SpecParse                         *)

MaxText == 4        \* the longest text

TextChars == {"1", "2", "j", "+", ",", " ", "(", ")", "x"}

InitParse ==
    /\ ui = UiDefaults /\ plots = NoPlots
    /\ zeros = <<>> /\ poles = <<>>
    /\ system_gain = COne /\ system_delay = 0 /\ N_impulse = 64
    /\ \E text \in SeqsOf(TextChars, 0, MaxText) :
          call = [fn |-> "parse_complex_list", st |-> "called", text |-> text]

ParseComplexListReturn ==
    /\ call.fn = "parse_complex_list" /\ call.st = "called"
    /\ call' = [fn |-> "parse_complex_list", st |-> "returned", text |-> call.text,
                ret |-> parse_complex_list(call.text)]
    /\ UNCHANGED <<description, ui, plots>>

NextParse == ParseComplexListReturn

SpecParse == InitParse /\ [][NextParse]_vars

ParseReturned == call.fn = "parse_complex_list" /\ call.st = "returned"

\* the writing of a number, stated by its form -----------------------------

AllDigits(p) == Len(p) >= 1 /\ \A i \in 1..Len(p) : IsDigit(p[i])

RECURSIVE Decimal(_)
Decimal(p) ==
    IF p = <<>> THEN 0 ELSE 10 * Decimal(SubSeq(p, 1, Len(p) - 1)) + DigitValue(p[Len(p)])

Unsigned(p) == IF p # <<>> /\ p[1] = "+" THEN Tail(p) ELSE p

\* the numbers p writes: [+]d, [+][d]j or [+]d+[d]j, d one or more digits
NumbersWritten(p) ==
    LET L == Len(p)
    IN  {<<Decimal(Unsigned(p)), 0>> : x \in {1} \cap {IF AllDigits(Unsigned(p)) THEN 1 ELSE 0}}
        \cup
        {<<0, IF body = <<>> THEN 1 ELSE Decimal(body)>> :
            body \in {b \in {Unsigned(SubSeq(p, 1, L - 1))} :
                        L >= 1 /\ p[L] = "j" /\ (b = <<>> \/ AllDigits(b))}}
        \cup
        {<<Decimal(Unsigned(SubSeq(p, 1, k - 1))),
           IF k + 1 = L THEN 1 ELSE Decimal(SubSeq(p, k + 1, L - 1))>> :
            k \in {m \in 2..(L - 1) :
                    /\ p[L] = "j" /\ p[m] = "+"
                    /\ AllDigits(Unsigned(SubSeq(p, 1, m - 1)))
                    /\ (m + 1 = L \/ AllDigits(SubSeq(p, m + 1, L - 1)))}}

\* the values of those of the strings parts[i], parts[i+1], ... that write
\* a number
RECURSIVE NumbersOf(_, _)
NumbersOf(parts, i) ==
    IF i > Len(parts) THEN <<>>
    ELSE LET w == NumbersWritten(parts[i])
         IN  (IF w = {} THEN <<>>
              ELSE LET v == CHOOSE x \in w : TRUE
                   IN  <<CGauss(RInt(v[1]), RInt(v[2]))>>)
             \o NumbersOf(parts, i + 1)

\* the comma-separated tokens of the text
Tokens(text) == Split(text, 1, <<>>)

\* a token as Python's complex() reads it: blanks around it and one pair of
\* parentheses around the number do not count
RECURSIVE Trim(_)
Trim(p) ==
    IF p # <<>> /\ p[1] = " " THEN Trim(Tail(p))
    ELSE IF p # <<>> /\ p[Len(p)] = " " THEN Trim(SubSeq(p, 1, Len(p) - 1))
    ELSE p

AsWritten(p) ==
    LET t == Trim(p)
    IN  IF Len(t) >= 2 /\ t[1] = "(" /\ t[Len(t)] = ")"
        THEN Trim(SubSeq(t, 2, Len(t) - 1))
        ELSE t

\* C17 (as stated): parse_complex_list never aborts, and returns the values
\* of exactly the comma-separated tokens that parse as a complex or real
\* number, in their order; a blank string gives the empty list.
C17_ExactlyTheNumberTokens ==
    ParseReturned =>
        /\ ~call.ret.raised
        /\ call.ret.value =
              NumbersOf([i \in 1..Len(Tokens(call.text)) |->
                            AsWritten(Tokens(call.text)[i])], 1)
        /\ IsBlank(call.text) => call.ret.value = <<>>

\* C17 (amended): parse_complex_list never aborts, and returns the values of
\* exactly the comma-separated tokens that parse as a complex or real number
\* once every blank and every parenthesis is removed from them, in their
\* order; a blank string gives the empty list.
C17_ExactlyTheCleanedNumberTokens ==
    ParseReturned =>
        /\ ~call.ret.raised
        /\ call.ret.value =
              NumbersOf([i \in 1..Len(Tokens(call.text)) |->
                            CleanToken(Tokens(call.text)[i])], 1)
        /\ IsBlank(call.text) => call.ret.value = <<>>

\* a text whose first token does not parse and whose second token does has
\* returned the value of the second
C17_Witness ==
    /\ ParseReturned
    /\ Len(Tokens(call.text)) = 2
    /\ CleanToken(Tokens(call.text)[1]) # <<>>
    /\ NumbersWritten(CleanToken(Tokens(call.text)[1])) = {}
    /\ Len(call.ret.value) = 1

-----------------------------------------------------------------------------
(* The handlers of interactions.py, main.py and the transfer-function      *)
(* editor of ui_components.py.  A handler is a function of the state s it   *)
(* starts in: s.sm is the description, s.ui the interaction state, s.shown  *)
(* what the plots show, s.updated whether update_all has run in this call,  *)
(* s.reported whether an error box was shown, s.raised the exception the    *)
(* handler ends with ("none": it returns).                                  *)

Cur == [sm |-> SM, ui |-> ui, shown |-> plots,
        updated |-> FALSE, reported |-> FALSE, raised |-> "none"]

\* trigger_update (interactions.py 41-44) with the callback main.py sets
trigger_update(s) == [s EXCEPT !.updated = TRUE, !.shown = update_all(s.sm)]

Raise(s, err) == [s EXCEPT !.raised = err]

set_mode(s, m) == [s EXCEPT !.ui.mode = m]

toggle_conjugates(s) == [s EXCEPT !.ui.add_conjugates = ~@]

\* abs(z - val) < 0.2, the threshold of find_closest and of on_motion
Near(z, val) == RLess(CyNorm2(CSub(z, val).c), <<1, 25>>)

\* the 0-based index of the first point within the threshold, -1 for None
find_closest(points, z) ==
    LET hits == {i \in 1..Len(points) : Near(z, points[i])}
    IN  IF hits = {} THEN -1
        ELSE (CHOOSE i \in hits : \A k \in hits : i <= k) - 1

\* abs(z.imag) > 0.05
OffAxis(z) ==
    LET im == CyCoef(z.c, Quarter)
    IN  RLess(<<1, 20>>, <<Abs(im[1]), im[2]>>)

\* show_context_menu builds and posts a menu when there is a Tk root, and
\* returns at once when there is none: it writes nothing
show_context_menu(s) == s

\* the list a kind names
PointsOf(s, kind) == IF kind = "zero" THEN s.sm.zeros ELSE s.sm.poles

WithPoints(s, kind, points) ==
    IF kind = "zero" THEN [s EXCEPT !.sm.zeros = points]
    ELSE [s EXCEPT !.sm.poles = points]

\* the option list with one flag of the entry at the 0-based index idx flipped
Flipped(opts, idx, flag) ==
    [opts EXCEPT ![idx + 1] = [@ EXCEPT ![flag] = ~@]]

toggle_flag(s, flag) ==
    IF s.ui.selected = None THEN s
    ELSE LET kind == s.ui.selected[1]
             idx  == s.ui.selected[2]
         IN  IF kind = "zero"
             THEN IF idx >= Len(s.ui.zeros_opts) THEN Raise(s, "IndexError")
                  ELSE trigger_update([s EXCEPT !.ui.zeros_opts = Flipped(@, idx, flag)])
             ELSE IF idx >= Len(s.ui.poles_opts) THEN Raise(s, "IndexError")
                  ELSE trigger_update([s EXCEPT !.ui.poles_opts = Flipped(@, idx, flag)])

toggle_coordinate(s) == toggle_flag(s, "show")

toggle_polar(s) == toggle_flag(s, "show_polar")

\* set_coordinate, lines 214-215: it returns at once without a selection
\* and without a Tk root.  The dialogs of lines 217-226 and the write of
\* lines 228-232 need a Tk root, which the program never has.
set_coordinate(s) ==
    CASE s.ui.selected = None \/ ~s.ui.tk_root -> s

\* the new roots of a click at z: z, and its conjugate in Real Filter mode
Placed(s, z) ==
    IF s.ui.add_conjugates /\ OffAxis(z) THEN <<z, CConj(z)>> ELSE <<z>>

on_press(s, event) ==
    IF ~event.inaxes THEN s
    ELSE
    LET z      == event.z
        z_idx  == find_closest(s.sm.zeros, z)
        p_idx  == find_closest(s.sm.poles, z)
        target == IF z_idx # -1 THEN <<"zero", z_idx>>
                  ELSE IF p_idx # -1 THEN <<"pole", p_idx>>
                  ELSE None
        new    == Placed(s, z)
        opts   == [i \in 1..Len(new) |-> NewOpts]
    IN  IF event.button = 3
        THEN IF target # None
             THEN show_context_menu([s EXCEPT !.ui.selected = target])
             ELSE s
        ELSE IF event.button = 1 /\ event.dblclick
        THEN IF target # None
             THEN set_coordinate([s EXCEPT !.ui.selected = target])
             ELSE s
        ELSE IF event.button = 1
        THEN IF target # None
             THEN [s EXCEPT !.ui.selected = target, !.ui.dragging = target]
             ELSE IF s.ui.mode = "zero"
             THEN trigger_update([s EXCEPT !.sm.zeros = @ \o new,
                                           !.ui.zeros_opts = @ \o opts])
             ELSE IF s.ui.mode = "pole"
             THEN trigger_update([s EXCEPT !.sm.poles = @ \o new,
                                           !.ui.poles_opts = @ \o opts])
             ELSE s
        ELSE s

\* lines 141-149: the 1-based position of the first other point within the
\* threshold of the conjugate of the old position, 0 when there is none
PairOf(points, at, z_old) ==
    LET hits == {i \in 1..Len(points) : i # at /\ Near(points[i], CConj(z_old))}
    IN  IF hits = {} THEN 0 ELSE CHOOSE i \in hits : \A k \in hits : i <= k

\* a drag that moves every other point near the conjugate of the old position
Dragged_EveryPair(points, at, z_new, conjugates) ==
    LET moved == [points EXCEPT ![at] = z_new]
    IN  IF conjugates
        THEN [i \in 1..Len(points) |->
                IF i # at /\ Near(points[i], CConj(points[at]))
                THEN CConj(z_new) ELSE moved[i]]
        ELSE moved

\* lines 132-157: the list after the drag of the point at position at
Dragged(points, at, z_new, conjugates) ==
    LET moved == [points EXCEPT ![at] = z_new]
        pair  == PairOf(moved, at, points[at])
    IN  IF conjugates /\ pair # 0
        THEN [moved EXCEPT ![pair] = CConj(z_new)]
        ELSE moved

\* a drag that leaves the plots as they were
on_motion_NoUpdate(s, event) ==
    IF s.ui.dragging = None \/ ~event.inaxes THEN s
    ELSE LET kind   == s.ui.dragging[1]
             idx    == s.ui.dragging[2]
             points == PointsOf(s, kind)
         IN  IF idx >= Len(points) THEN Raise(s, "IndexError")
             ELSE WithPoints(s, kind,
                     Dragged(points, idx + 1, event.z, s.ui.add_conjugates))

on_motion(s, event) ==
    IF s.ui.dragging = None \/ ~event.inaxes THEN s
    ELSE LET kind   == s.ui.dragging[1]
             idx    == s.ui.dragging[2]
             points == PointsOf(s, kind)
         IN  IF idx >= Len(points) THEN Raise(s, "IndexError")
             ELSE trigger_update(WithPoints(s, kind,
                     Dragged(points, idx + 1, event.z, s.ui.add_conjugates)))

on_release(s) == [s EXCEPT !.ui.dragging = None]

\* list.pop(idx) for 0 <= idx < len(list)
Pop(list, idx) == SubSeq(list, 1, idx) \o SubSeq(list, idx + 2, Len(list))

\* a removal that drops the last option entry, whichever root is removed
remove_selected_LastOption(s) ==
    IF s.ui.selected = None THEN s
    ELSE LET kind == s.ui.selected[1]
             idx  == s.ui.selected[2]
         IN  IF kind = "zero"
             THEN IF idx >= Len(s.sm.zeros) THEN Raise(s, "IndexError")
                  ELSE trigger_update([s EXCEPT !.sm.zeros = Pop(@, idx),
                                                !.ui.zeros_opts = Pop(@, Len(@) - 1),
                                                !.ui.selected = None])
             ELSE IF idx >= Len(s.sm.poles) THEN Raise(s, "IndexError")
                  ELSE trigger_update([s EXCEPT !.sm.poles = Pop(@, idx),
                                                !.ui.poles_opts = Pop(@, Len(@) - 1),
                                                !.ui.selected = None])

remove_selected(s) ==
    IF s.ui.selected = None THEN s
    ELSE LET kind == s.ui.selected[1]
             idx  == s.ui.selected[2]
         IN  IF kind = "zero"
             THEN IF idx >= Len(s.sm.zeros) THEN Raise(s, "IndexError")
                  ELSE IF idx >= Len(s.ui.zeros_opts)
                  THEN Raise([s EXCEPT !.sm.zeros = Pop(@, idx)], "IndexError")
                  ELSE trigger_update([s EXCEPT !.sm.zeros = Pop(@, idx),
                                                !.ui.zeros_opts = Pop(@, idx),
                                                !.ui.selected = None])
             ELSE IF idx >= Len(s.sm.poles) THEN Raise(s, "IndexError")
                  ELSE IF idx >= Len(s.ui.poles_opts)
                  THEN Raise([s EXCEPT !.sm.poles = Pop(@, idx)], "IndexError")
                  ELSE trigger_update([s EXCEPT !.sm.poles = Pop(@, idx),
                                                !.ui.poles_opts = Pop(@, idx),
                                                !.ui.selected = None])

reset_board(s) ==
    trigger_update([s EXCEPT !.ui.mode = "none",
                             !.sm.zeros = <<>>, !.sm.poles = <<>>,
                             !.ui.zeros_opts = <<>>, !.ui.poles_opts = <<>>,
                             !.ui.selected = None,
                             !.sm.system_gain = COne, !.sm.system_delay = 0])

\* options.index(sm.N_impulse) if sm.N_impulse in options else 0, 0-based
IndexIn(options, n) ==
    IF \E i \in 1..Len(options) : options[i] = n
    THEN (CHOOSE i \in 1..Len(options) :
            options[i] = n /\ \A k \in 1..(i - 1) : options[k] # n) - 1
    ELSE 0

\* the size after the one shown, with no way back from the last
NextSize_NoWrap(options, n) ==
    options[IF IndexIn(options, n) + 2 > Len(options) THEN Len(options)
            ELSE IndexIn(options, n) + 2]

\* lines 415-419: options[(current_idx + 1) % len(options)]
NextSize(options, n) == options[((IndexIn(options, n) + 1) % Len(options)) + 1]

show_fft_menu(s) ==
    trigger_update([s EXCEPT !.sm.N_impulse = NextSize(Options, @)])

\* int(text): blanks around an optional sign and digits; ok = FALSE stands
\* for ValueError
PyInt(text) ==
    LET t == Trim(text)
        n == ReadNumber(t, 1)
    IN  IF n.next > 1 /\ n.next = Len(t) + 1 /\ ~n.nf
        THEN [ok |-> TRUE, value |-> n.val] ELSE [ok |-> FALSE, value |-> 0]

\* np.roots of at most two coefficients between the leading and the trailing
\* zeros: the root of the linear factor, then one root 0.0 for every
\* trailing zero coefficient.  eigvals refuses a companion matrix that holds
\* a nan (LinAlgError, a ValueError): raised.
roots(p) ==
    LET nz == {i \in 1..Len(p) : ~IsZero(p[i])}
    IN  IF nz = {} THEN [raised |-> FALSE, value |-> <<>>]
        ELSE LET first == CHOOSE i \in nz : \A k \in nz : i <= k
                 last  == CHOOSE i \in nz : \A k \in nz : k <= i
                 zs    == [i \in 1..(Len(p) - last) |-> CZero]
             IN  CASE last = first ->
                        [raised |-> FALSE, value |-> zs]
                   [] last = first + 1 /\ (p[first].nf \/ p[last].nf) ->
                        [raised |-> TRUE, value |-> <<>>]
                   [] last = first + 1 ->
                        [raised |-> FALSE,
                         value |-> <<CNeg(CDiv(p[last], p[first]))>> \o zs]

\* abs() of a number on the real or on the imaginary axis
PyAbs(x) ==
    LET re == CyCoef(x.c, 0)
        im == CyCoef(x.c, Quarter)
    IN  CASE x.nf       -> CNonFinite
          [] im = RZero -> CReal(<<Abs(re[1]), re[2]>>)
          [] re = RZero -> CReal(<<Abs(im[1]), im[2]>>)

\* lines 315-323: the roots of the raw coefficients, none for an empty list
RootsOf(raw) == IF Len(raw) > 0 THEN roots(raw)
                ELSE [raised |-> FALSE, value |-> <<>>]

\* lines 326-328: abs(gain_num / gain_den)
GainOf(new_zeros_raw, new_poles_raw) ==
    LET gain_num == IF Len(new_zeros_raw) > 0 THEN new_zeros_raw[1] ELSE COne
        gain_den == IF Len(new_poles_raw) > 0 /\ ~IsZero(new_poles_raw[1])
                    THEN new_poles_raw[1] ELSE COne
    IN  PyAbs(CDiv(gain_num, gain_den))

\* an edit that stores each root list as soon as it is found
on_submit_Eager(s, b_str, a_str, d_str) ==
    LET new_zeros_raw == parse_complex_list(b_str).value
        new_poles_raw == parse_complex_list(a_str).value
        delay         == PyInt(d_str)
        new_zeros     == RootsOf(new_zeros_raw)
        new_poles     == RootsOf(new_poles_raw)
        s1 == [s EXCEPT !.sm.zeros = new_zeros.value,
                        !.ui.zeros_opts = [i \in 1..Len(new_zeros.value) |-> NewOpts]]
        s2 == [s1 EXCEPT !.sm.poles = new_poles.value,
                         !.ui.poles_opts = [i \in 1..Len(new_poles.value) |-> NewOpts]]
    IN  IF new_zeros.raised THEN [s EXCEPT !.reported = TRUE]
        ELSE IF new_poles.raised THEN [s1 EXCEPT !.reported = TRUE]
        ELSE IF ~delay.ok THEN [s2 EXCEPT !.reported = TRUE]
        ELSE trigger_update(
               [s2 EXCEPT !.sm.system_gain = GainOf(new_zeros_raw, new_poles_raw),
                          !.sm.system_delay = delay.value])

\* on_submit with the texts of the three entries.  The ValueError of int()
\* and the LinAlgError of np.roots end in the except branch of line 343.
on_submit(s, b_str, a_str, d_str) ==
    LET new_zeros_raw == parse_complex_list(b_str).value
        new_poles_raw == parse_complex_list(a_str).value
        delay         == PyInt(d_str)
        new_zeros     == RootsOf(new_zeros_raw)
        new_poles     == RootsOf(new_poles_raw)
    IN  IF ~delay.ok THEN [s EXCEPT !.reported = TRUE]
        ELSE IF new_zeros.raised \/ new_poles.raised THEN [s EXCEPT !.reported = TRUE]
        ELSE trigger_update(
               [s EXCEPT !.sm.zeros = new_zeros.value, !.sm.poles = new_poles.value,
                         !.sm.system_gain = GainOf(new_zeros_raw, new_poles_raw),
                         !.sm.system_delay = delay.value,
                         !.ui.zeros_opts = [i \in 1..Len(new_zeros.value) |-> NewOpts],
                         !.ui.poles_opts = [i \in 1..Len(new_poles.value) |-> NewOpts]])

-----------------------------------------------------------------------------
(* The program as its user drives it: Spec                                  *)

MaxEvents == 4      \* handler calls other than presses of the FFT button
MaxPlaced == 3      \* the longest list of zeros and of poles

PressPoints == {CReal(<<1, 2>>), CGauss(<<1, 2>>, <<1, 2>>)}
DragPoints == {CGauss(<<1, 2>>, <<1, 2>>), J}

\* a press outside the z-plane, left clicks, a right click and a double click
PressEvents ==
    {[inaxes |-> FALSE, z |-> CReal(<<1, 2>>), button |-> 1, dblclick |-> FALSE]}
    \cup {[inaxes |-> TRUE, z |-> z, button |-> 1, dblclick |-> FALSE] :
             z \in PressPoints}
    \cup {[inaxes |-> TRUE, z |-> CReal(<<1, 2>>), button |-> 3, dblclick |-> FALSE],
          [inaxes |-> TRUE, z |-> CReal(<<1, 2>>), button |-> 1, dblclick |-> TRUE]}

MotionEvents ==
    {[inaxes |-> FALSE, z |-> J]}
    \cup {[inaxes |-> TRUE, z |-> z] : z \in DragPoints}

\* the texts of the numerator, denominator and delay entries
EditorTexts ==
    {<<(<<"1">>), (<<"1">>), (<<"x">>)>>,
     <<(<<"2", ",", "1">>), (<<"1">>), (<<"1">>)>>,
     <<(<<"x">>), (<<"1", ",", "1">>), (<<" ", "2">>)>>,
     <<(<<"n", "a", "n", ",", "1">>), (<<"1">>), (<<"1">>)>>,
     <<(<<"-", "1", ",", "1">>), (<<"1">>), (<<"-", "1">>)>>}

\* one handler call that ends in the state r
Handled(fn, input, r, counted) ==
    /\ ~counted \/ ui.events < MaxEvents
    /\ \E end \in {r} :
        /\ Len(end.sm.zeros) <= MaxPlaced /\ Len(end.sm.poles) <= MaxPlaced
        /\ zeros' = end.sm.zeros
        /\ poles' = end.sm.poles
        /\ system_gain' = end.sm.system_gain
        /\ system_delay' = end.sm.system_delay
        /\ N_impulse' = end.sm.N_impulse
        /\ ui' = [end.ui EXCEPT !.events = IF counted THEN @ + 1 ELSE @]
        /\ plots' = end.shown
        /\ call' = [fn |-> fn, st |-> "returned", input |-> input,
                    updated |-> end.updated, reported |-> end.reported,
                    raised |-> end.raised]

SetMode == \E m \in {"zero", "pole"} : Handled("set_mode", m, set_mode(Cur, m), TRUE)

ToggleConjugates == Handled("toggle_conjugates", None, toggle_conjugates(Cur), TRUE)

OnPress == \E event \in PressEvents : Handled("on_press", event, on_press(Cur, event), TRUE)

OnMotion == \E event \in MotionEvents : Handled("on_motion", event, on_motion(Cur, event), TRUE)

OnRelease == Handled("on_release", None, on_release(Cur), TRUE)

SetCoordinate == Handled("set_coordinate", None, set_coordinate(Cur), TRUE)

ToggleCoordinate == Handled("toggle_coordinate", None, toggle_coordinate(Cur), TRUE)

TogglePolar == Handled("toggle_polar", None, toggle_polar(Cur), TRUE)

RemoveSelected == Handled("remove_selected", None, remove_selected(Cur), TRUE)

ResetBoard == Handled("reset_board", None, reset_board(Cur), TRUE)

ShowFftMenu == Handled("show_fft_menu", None, show_fft_menu(Cur), FALSE)

OnSubmit ==
    \E texts \in EditorTexts :
        Handled("on_submit", texts, on_submit(Cur, texts[1], texts[2], texts[3]), TRUE)

Next ==
    \/ SetMode
    \/ ToggleConjugates
    \/ OnPress
    \/ OnMotion
    \/ OnRelease
    \/ SetCoordinate
    \/ ToggleCoordinate
    \/ TogglePolar
    \/ RemoveSelected
    \/ ResetBoard
    \/ ShowFftMenu
    \/ OnSubmit

Spec == Init /\ [][Next]_vars

Sizes == {64, 128, 256, 512, 1024, 2048}

\* the size that follows n among the selectable sizes
Following(n) == IF n = 2048 THEN 64 ELSE 2 * n

\* C18: N_impulse starts at 64 and is one of 64, 128, 256, 512, 1024 and
\* 2048 in every reachable state; a press of the FFT button moves it to the
\* next of these sizes, from 2048 back to 64, and no other handler (adding,
\* dragging, removing, Reset, the transfer-function edit) changes it.
C18_SizeCycles ==
    /\ N_impulse = 64
    /\ [][/\ N_impulse \in Sizes /\ N_impulse' \in Sizes
          /\ IF call'.fn = "show_fft_menu"
             THEN N_impulse' = Following(N_impulse)
             ELSE N_impulse' = N_impulse]_vars

\* the sixth press of the FFT button, on a board that holds a root, has
\* brought the size back to 64
C18_Witness ==
    /\ call.fn = "show_fft_menu"
    /\ N_impulse = 64
    /\ Len(zeros) + Len(poles) > 0

\* C19: a handler call that changes zeros, poles, system_gain or
\* system_delay runs the update after the change and before it returns: it
\* ends without an exception, and the plots then show the frequency
\* response, the coefficients and the impulse response of the description
\* the call leaves.
C19_UpdatedAfterChange ==
    [][<<zeros, poles, system_gain, system_delay>>' #
           <<zeros, poles, system_gain, system_delay>> =>
        /\ call'.updated
        /\ call'.raised = "none"
        /\ plots'.drawn
        /\ plots'.of = SM']_vars

\* a drag has moved the only zero from 1/2 to j, and the plots show the
\* moved zero: b = [1, -j], a = [1] and H = 1 - j / z at z = e^{-j pi},
\* which is 1 + j up to the rounding of z
C19_Witness ==
    /\ call.fn = "on_motion"
    /\ call.updated
    /\ ui.dragging = <<"zero", 0>>
    /\ zeros = <<J>> /\ poles = <<>> /\ system_gain = COne /\ system_delay = 0
    /\ plots.drawn
    /\ shown_coeffs = <<(<<COne, CNeg(J)>>), (<<COne>>)>>
    /\ shown_H = <<CSub(COne, CDiv(J, ExpJ(-Half)))>>
    /\ CyLow(shown_H[1].c) = CGauss(ROne, ROne).c

-----------------------------------------------------------------------------
(* The signal generators called on their own: SpecGen                      *)

IndexValues == (-2)..2
Widths == (-1)..2

InitGen ==
    /\ zeros = <<>> /\ poles = <<>> /\ system_gain = COne
    /\ system_delay = 0 /\ N_impulse = 64
    /\ ui = UiDefaults /\ plots = NoPlots
    /\ \E t \in SeqsOf(IndexValues, 0, MaxLen) :
          \/ \E fn \in {"unit_step", "impulse", "ramp"} :
                call = [fn |-> fn, st |-> "called", t |-> t, width |-> 0]
          \/ \E width \in Widths :
                call = [fn |-> "rect", st |-> "called", t |-> t, width |-> width]

UnitStepReturn ==
    /\ call.fn = "unit_step" /\ call.st = "called"
    /\ call' = [call EXCEPT !.st = "returned"] @@ [ret |-> unit_step(call.t)]
    /\ UNCHANGED <<description, ui, plots>>

ImpulseReturn ==
    /\ call.fn = "impulse" /\ call.st = "called"
    /\ call' = [call EXCEPT !.st = "returned"] @@ [ret |-> impulse(call.t)]
    /\ UNCHANGED <<description, ui, plots>>

RampReturn ==
    /\ call.fn = "ramp" /\ call.st = "called"
    /\ call' = [call EXCEPT !.st = "returned"] @@ [ret |-> ramp(call.t)]
    /\ UNCHANGED <<description, ui, plots>>

RectReturn ==
    /\ call.fn = "rect" /\ call.st = "called"
    /\ call' = [call EXCEPT !.st = "returned"] @@ [ret |-> rect(call.t, call.width)]
    /\ UNCHANGED <<description, ui, plots>>

NextGen == UnitStepReturn \/ ImpulseReturn \/ RampReturn \/ RectReturn

SpecGen == InitGen /\ [][NextGen]_vars

GenReturned ==
    call.fn \in {"unit_step", "impulse", "ramp", "rect"} /\ call.st = "returned"

\* the sample the claim gives the generator fn at the index n
Sample(fn, n, width) ==
    CASE fn = "unit_step" -> IF n >= 0 THEN COne ELSE CZero
      [] fn = "impulse"   -> IF n = 0 THEN COne ELSE CZero
      [] fn = "ramp"      -> IF n >= 0 THEN CReal(RInt(n)) ELSE CZero
      [] fn = "rect"      -> IF 0 <= n /\ n < width THEN COne ELSE CZero

\* C20: on every integer index array n each generator returns a float array
\* as long as n whose samples are, index by index: 1 where n >= 0 and else 0
\* for unit_step; 1 where n = 0 and else 0 for impulse; n where n >= 0 and 0
\* where n < 0 for ramp; 1 where 0 <= n < width and else 0 for rect, which
\* is all zeros when width <= 0.
C20_Generators ==
    GenReturned =>
        /\ call.ret.dtype = "float"
        /\ Len(call.ret.v) = Len(call.t)
        /\ \A i \in 1..Len(call.t) :
              call.ret.v[i] = Sample(call.fn, call.t[i], call.width)
        /\ (call.fn = "rect" /\ call.width <= 0) =>
              \A i \in 1..Len(call.t) : IsZero(call.ret.v[i])

\* rect has returned all zeros for a width of 0 and an index array that
\* holds 0 and a negative index
C20_Witness ==
    /\ GenReturned
    /\ call.fn = "rect" /\ call.width = 0
    /\ \E i \in 1..Len(call.t) : call.t[i] = 0
    /\ \E i \in 1..Len(call.t) : call.t[i] < 0

-----------------------------------------------------------------------------
(* The transfer-function editor                                            *)

\* the text of an integer: blanks around an optional sign and digits
IsIntegerText(text) ==
    LET t    == Trim(text)
        body == IF t # <<>> /\ IsSign(t[1]) THEN Tail(t) ELSE t
    IN  body # <<>> /\ \A i \in 1..Len(body) : IsDigit(body[i])

\* the coefficients entered in a text
Entered(text) == parse_complex_list(text).value

\* the edit with these texts fails: the delay is no integer, or root-finding
\* fails on the numerator or on the denominator
EditFails(texts) ==
    \/ ~IsIntegerText(texts[3])
    \/ RootsOf(Entered(texts[1])).raised
    \/ RootsOf(Entered(texts[2])).raised

\* C21: an edit whose delay field is no integer or whose root-finding fails
\* leaves zeros, poles, system_gain, system_delay, zeros_opts and poles_opts
\* as they were and does not run the update; every other edit overwrites
\* zeros, poles, gain and delay from the entered coefficients, and the
\* update that follows draws from all four new values.
C21_AllOrNothing ==
    [][call'.fn = "on_submit" =>
        IF EditFails(call'.input)
        THEN /\ UNCHANGED <<zeros, poles, system_gain, system_delay>>
             /\ ui'.zeros_opts = ui.zeros_opts
             /\ ui'.poles_opts = ui.poles_opts
             /\ ~call'.updated
             /\ plots' = plots
        ELSE /\ zeros' = RootsOf(Entered(call'.input[1])).value
             /\ poles' = RootsOf(Entered(call'.input[2])).value
             /\ system_gain' = GainOf(Entered(call'.input[1]), Entered(call'.input[2]))
             /\ system_delay' = PyInt(call'.input[3]).value
             /\ call'.updated
             /\ plots' = [drawn |-> TRUE, of |-> SM']]_vars

\* an edit with a nan among its numerator coefficients and an integer delay
\* has failed on a board that holds a zero, which is still there
C21_Witness ==
    /\ call.fn = "on_submit"
    /\ IsIntegerText(call.input[3])
    /\ RootsOf(Entered(call.input[1])).raised
    /\ call.reported /\ ~call.updated
    /\ Len(zeros) > 0 /\ Len(ui.zeros_opts) = Len(zeros)

-----------------------------------------------------------------------------
(* The delay alignment of show_signal_analysis: SpecAlign                  *)

\* every number of samples up to MaxPts and every delay up to one more
InitAlign ==
    /\ ui = UiDefaults /\ plots = NoPlots
    /\ zeros \in {<<>>, <<J>>}
    /\ poles = <<CReal(<<1, 2>>)>>
    /\ system_gain = COne
    /\ system_delay \in (-(MaxPts + 1))..(MaxPts + 1)
    /\ N_impulse = 64
    /\ \E expr \in {"u(n)", "d(n)"}, num_pts \in 0..MaxPts :
          call = [fn |-> "show_signal_analysis", st |-> "called",
                  expr |-> expr, num_pts |-> num_pts]

NextAlign == ShowSignalAnalysisReturn

SpecAlign == InitAlign /\ [][NextAlign]_vars

\* the output of the filter before the alignment
Filtered == filter_signal(call.ret.filter_args[1], call.ret.filter_args[2],
                          call.ret.x).value.v

\* C22: for every output length L and every integer delay d the aligned
\* output is the filter output y shifted by d with zeros filled in:
\* out[n] = y[n - d] where 0 <= n - d < L, and 0 elsewhere, so no sample
\* comes round the end and the output is all zeros when |d| >= L.
C22_LinearShift ==
    (SignalReturned /\ call.ret.filter_called) =>
        LET y   == Filtered
            out == call.ret.y.v
            L   == Len(y)
            d   == system_delay
        IN  /\ Len(out) = L
            /\ \A n \in 0..(L - 1) :
                  out[n + 1] = IF 0 <= n - d /\ n - d < L THEN y[n - d + 1] ELSE CZero
            /\ (d >= L \/ -d >= L) => \A n \in 1..L : IsZero(out[n])

\* an output of MaxPts samples has been moved two samples earlier: its first
\* two samples, which are not zero, have not come round to the end
C22_Witness ==
    /\ SignalReturned /\ call.ret.filter_called
    /\ system_delay = -2 /\ call.num_pts = MaxPts
    /\ ~IsZero(Filtered[1]) /\ ~IsZero(Filtered[2])
    /\ call.ret.y.v[1] = Filtered[3]
    /\ IsZero(call.ret.y.v[MaxPts - 1]) /\ IsZero(call.ret.y.v[MaxPts])

-----------------------------------------------------------------------------
(* Boards with roots on them: SpecBoard starts where Spec is after the     *)
(* user has laid roots out, and goes on with every handler but the FFT     *)
(* button.                                                                  *)

\* what the handlers start from
Start ==
    [sm |-> [zeros |-> <<>>, poles |-> <<>>, system_gain |-> COne,
             system_delay |-> 0, N_impulse |-> 64],
     ui |-> UiDefaults, shown |-> NoPlots,
     updated |-> FALSE, reported |-> FALSE, raised |-> "none"]

\* a left click inside the z-plane
Click(z) ==
    [inaxes |-> TRUE, z |-> z, button |-> 1, dblclick |-> FALSE]

UpperHalf == CGauss(<<1, 2>>, <<1, 2>>)
LowerLeft == CGauss(<<3, 8>>, <<-1, 2>>)
LowerRight == CGauss(<<5, 8>>, <<-1, 2>>)

\* the boards the handlers leave after: nothing; two zeros placed one by
\* one; a conjugate pair of poles placed by one press in Real Filter mode; a
\* zero and two more zeros on either side of its conjugate, with Real Filter
\* mode switched on afterwards
LaidOut ==
    LET s0        == Start
        twoZeros  == on_press(on_press(set_mode(s0, "zero"),
                                       Click(CReal(<<1, 2>>))), Click(UpperHalf))
        polePair  == on_press(set_mode(toggle_conjugates(s0), "pole"),
                              Click(UpperHalf))
        threeZeros == toggle_conjugates(
                          on_press(on_press(on_press(set_mode(s0, "zero"),
                              Click(UpperHalf)), Click(LowerLeft)), Click(LowerRight)))
    IN  {s0, twoZeros, polePair, threeZeros}

InitBoard ==
    \E s \in LaidOut :
        /\ zeros = s.sm.zeros
        /\ poles = s.sm.poles
        /\ system_gain = s.sm.system_gain
        /\ system_delay = s.sm.system_delay
        /\ N_impulse = s.sm.N_impulse
        /\ ui = s.ui
        /\ plots = s.shown
        /\ call = [fn |-> "none", st |-> "returned"]

NextBoard ==
    \/ SetMode
    \/ ToggleConjugates
    \/ OnPress
    \/ OnMotion
    \/ OnRelease
    \/ SetCoordinate
    \/ ToggleCoordinate
    \/ TogglePolar
    \/ RemoveSelected
    \/ ResetBoard
    \/ OnSubmit

SpecBoard == InitBoard /\ [][NextBoard]_vars

\* the list without its entry at the 0-based index i, the others in order
Without(list, i) ==
    [k \in 1..(Len(list) - 1) |-> IF k <= i THEN list[k] ELSE list[k + 1]]

\* the removal of a selected root that is on the board
RemovalStep ==
    /\ call'.fn = "remove_selected"
    /\ ui.selected # None
    /\ ui.selected[2] < Len(IF ui.selected[1] = "zero" THEN zeros ELSE poles)

\* C23: the option lists are as long as the root lists in every reachable
\* state, whatever presses, drags, removals, resets and edits led there, and
\* the removal of the root at index i takes entry i, and no other, out of
\* the root list and out of its option list, the rest keeping their order,
\* and leaves the lists of the other kind alone.
C23_OptionsParallel ==
    /\ [](Len(ui.zeros_opts) = Len(zeros) /\ Len(ui.poles_opts) = Len(poles))
    /\ [][RemovalStep =>
            IF ui.selected[1] = "zero"
            THEN /\ zeros' = Without(zeros, ui.selected[2])
                 /\ ui'.zeros_opts = Without(ui.zeros_opts, ui.selected[2])
                 /\ poles' = poles /\ ui'.poles_opts = ui.poles_opts
            ELSE /\ poles' = Without(poles, ui.selected[2])
                 /\ ui'.poles_opts = Without(ui.poles_opts, ui.selected[2])
                 /\ zeros' = zeros /\ ui'.zeros_opts = ui.zeros_opts]_vars

\* the first of two zeros has been removed; the zero that stays had its
\* coordinates switched on, and they still are
C23_Witness ==
    /\ call.fn = "remove_selected"
    /\ call.updated
    /\ zeros = <<UpperHalf>>
    /\ ui.zeros_opts = <<[show |-> TRUE, show_polar |-> FALSE]>>

-----------------------------------------------------------------------------
(* The coefficients after an edit, against the coefficients entered        *)

\* the numerator and the denominator of the edit that has just succeeded
EnteredB == Entered(call.input[1])
EnteredA == Entered(call.input[2])

\* an edit has succeeded whose numerator starts with a coefficient other
\* than 0 and whose denominator starts with 1
MonicEdit ==
    /\ call.fn = "on_submit"
    /\ call.updated
    /\ Len(EnteredB) > 0 /\ ~IsZero(EnteredB[1])
    /\ Len(EnteredA) > 0 /\ EnteredA[1] = COne

\* C24: after a successful edit with b[0] # 0 and a[0] = 1, coeffs_quantized
\* of the new description returns the entered b and a, each rounded to 3
\* decimals, whatever the sign of b[0].
C24_RoundTrip ==
    MonicEdit =>
        coeffs_quantized(SM) = <<Quantize(EnteredB), Quantize(EnteredA)>>

-----------------------------------------------------------------------------
(* What a drag step changes                                                 *)

\* the list of the kind being dragged, before and after the step
DraggedList == IF ui.dragging[1] = "zero" THEN zeros ELSE poles
DraggedListAfter == IF ui.dragging[1] = "zero" THEN zeros' ELSE poles'

\* on_motion has run inside the z-plane while a root of the board was
\* being dragged
DragStep ==
    /\ call'.fn = "on_motion"
    /\ call'.input.inaxes
    /\ ui.dragging # None
    /\ ui.dragging[2] < Len(DraggedList)

\* the positions other than the dragged one whose root lies within 0.2 of
\* the conjugate of the dragged root
Partners ==
    {i \in 1..Len(DraggedList) :
        /\ i # ui.dragging[2] + 1
        /\ Near(DraggedList[i], CConj(DraggedList[ui.dragging[2] + 1]))}

\* C25: a drag step changes only the root list of the dragged kind and no
\* length: the other root list, both option lists, gain and delay stay.
\* With Real Filter mode off the list changes at the dragged index only,
\* which holds the new position; with it on the dragged index holds the new
\* position, the first other root within 0.2 of the conjugate of the old
\* position, if there is one, holds the conjugate of the new position, and
\* every other entry stays.
C25_DragFrame ==
    [][DragStep =>
        /\ IF ui.dragging[1] = "zero" THEN poles' = poles ELSE zeros' = zeros
        /\ ui'.zeros_opts = ui.zeros_opts /\ ui'.poles_opts = ui.poles_opts
        /\ UNCHANGED <<system_gain, system_delay>>
        /\ Len(DraggedListAfter) = Len(DraggedList)
        /\ \A i \in 1..Len(DraggedList) :
              DraggedListAfter[i] =
                 IF i = ui.dragging[2] + 1 THEN call'.input.z
                 ELSE IF ui.add_conjugates /\ i \in Partners
                         /\ \A k \in Partners : i <= k
                      THEN CConj(call'.input.z)
                      ELSE DraggedList[i]]_vars

\* a zero with two other zeros near its conjugate has been dragged to j in
\* Real Filter mode: the first of the two is at -j, the second where it was
C25_Witness ==
    /\ call.fn = "on_motion"
    /\ call.updated
    /\ ui.add_conjugates
    /\ zeros = <<J, CConj(J), LowerRight>>

====
